---- MODULE Spec2Model ----
(***************************************************************************)
(* CashBoard: the Data Service (js/services/dataService.js), the record    *)
(* models (js/models/models.js) and the persistence store                  *)
(* (js/utils/storage.js) as a state machine.  One action per public call   *)
(* of the Data Service; every call runs to completion (the program is      *)
(* single-threaded and synchronous).                                       *)
(*                                                                         *)
(* JavaScript values: a string is a TLA+ string, null held by a            *)
(* string-valued field is the marker Null, a number is an integer, an      *)
(* array is a sequence, an object is a record.  An object that lacks a     *)
(* property is a record whose DOMAIN lacks the field, so `data.f` being    *)
(* undefined is `f \notin DOMAIN data`; the empty object {} is <<>>.       *)
(***************************************************************************)
EXTENDS Integers, Sequences, FiniteSets, TLC

\* ------------------------------------------------------------------ bounds
\* calls of the Data Service in one behaviour
MaxCalls == 3
\* listeners registered through onDataChanged
MaxListeners == 1
\* writes the key-value store refuses in one behaviour
MaxFaults == 1

VARIABLES
    incomeData,      \* dataService.js:8, array of Income
    expenseData,     \* dataService.js:9, array of Expense
    budgetData,      \* dataService.js:10, array of Budget
    eventListeners,  \* dataService.js:13, the dataChanged callbacks in order
    localStorage,    \* the browser's key-value store behind Storage
    faults,          \* number of writes the store has refused so far
    calls,           \* number of calls made so far
    last,            \* the most recent call: arguments, outcome, effects log
    reader           \* storage.js:451, the FileReader of importDataFromFile

vars == <<incomeData, expenseData, budgetData, eventListeners, localStorage,
          faults, calls, last, reader>>

\* ------------------------------------------------------- values and dates
Null == "null"

\* `new Date()`: the day the session runs on, as the ordinal day of 2025
\* (1 = 1 January); 73 is Friday 14 March 2025.
Now == 73

\* the date strings of the model and the day `new Date(str)` parses them to
DateTable ==
    { <<"2025-03-14", 73>>, <<"2025-03-03", 62>>, <<"2025-02-20", 51>>,
      <<"2025-03-01", 60>>, <<"2025-03-10", 69>>, <<"2025-03-16", 75>>,
      <<"2025-03-31", 90>> }

\* new Date(str): an invalid date (NaN) for a string that is not a date
ParseDate(str) ==
    IF \E p \in DateTable : p[1] = str
    THEN [valid |-> TRUE, day |-> (CHOOSE p \in DateTable : p[1] = str)[2]]
    ELSE [valid |-> FALSE, day |-> 0]

\* new Date().toISOString().split('T')[0]
Today == (CHOOSE p \in DateTable : p[2] = Now)[1]

\* comparisons with an invalid date are false, as with NaN
DateGE(d, day) == d.valid /\ d.day >= day
DateLE(d, day) == d.valid /\ d.day <= day

\* days of 2025 that precede month m (0-based; -1 is December 2024 and
\* 12, 13 are January, February 2026), so that year, month and an
\* out-of-range day normalise the way new Date(y, m, d) does
DaysBeforeMonth(m) ==
    CASE m = -1 -> -31 [] m = 0 -> 0   [] m = 1 -> 31   [] m = 2 -> 59
      [] m = 3 -> 90   [] m = 4 -> 120 [] m = 5 -> 151  [] m = 6 -> 181
      [] m = 7 -> 212  [] m = 8 -> 243 [] m = 9 -> 273  [] m = 10 -> 304
      [] m = 11 -> 334 [] m = 12 -> 365 [] m = 13 -> 396

JSDate(m, d) == DaysBeforeMonth(m) + d
getMonth(day) ==
    CHOOSE m \in -1..12 :
        DaysBeforeMonth(m) < day /\ day <= DaysBeforeMonth(m + 1)
getDate(day) == day - DaysBeforeMonth(getMonth(day))
\* 0 = Sunday; 1 January 2025 is a Wednesday
getDay(day) == (day + 2) % 7

\* ------------------------------------------------------------ the models
\* `data.f || dflt` for a string field, a number field, a boolean field and
\* a field holding an array or an object (always truthy when present)
OrStr(data, f, dflt) ==
    IF f \in DOMAIN data /\ data[f] # "" /\ data[f] # Null
    THEN data[f] ELSE dflt
OrNum(data, f, dflt) ==
    IF f \in DOMAIN data /\ data[f] # 0 THEN data[f] ELSE dflt
OrBool(data, f, dflt) ==
    IF f \in DOMAIN data /\ data[f] THEN data[f] ELSE dflt
OrObj(data, f, dflt) ==
    IF f \in DOMAIN data THEN data[f] ELSE dflt

\* generateID(): timestamp plus random suffix, any of the ids below
GenIds == {"g1", "g2"}

IncomeFields ==
    {"id", "title", "amount", "category", "date", "recurring",
     "recurrenceInterval", "notes", "source", "tags"}
ExpenseFields ==
    {"id", "title", "amount", "category", "date", "recurring",
     "recurrenceInterval", "paymentMethod", "notes", "tags", "receipt",
     "location"}
BudgetFields ==
    {"id", "category", "amount", "period", "startDate", "notes",
     "rollover", "alerts"}

\* new Income(data); gid is what generateID() returns if it is called
Income(data, gid) ==
    [id |-> OrStr(data, "id", gid),
     title |-> OrStr(data, "title", ""),
     amount |-> OrNum(data, "amount", 0),
     category |-> OrStr(data, "category", "Salary"),
     date |-> OrStr(data, "date", Today),
     recurring |-> OrBool(data, "recurring", FALSE),
     recurrenceInterval |-> OrStr(data, "recurrenceInterval", "monthly"),
     notes |-> OrStr(data, "notes", ""),
     source |-> OrStr(data, "source", ""),
     tags |-> OrObj(data, "tags", <<>>)]

Expense(data, gid) ==
    [id |-> OrStr(data, "id", gid),
     title |-> OrStr(data, "title", ""),
     amount |-> OrNum(data, "amount", 0),
     category |-> OrStr(data, "category", "Miscellaneous"),
     date |-> OrStr(data, "date", Today),
     recurring |-> OrBool(data, "recurring", FALSE),
     recurrenceInterval |-> OrStr(data, "recurrenceInterval", "monthly"),
     paymentMethod |-> OrStr(data, "paymentMethod", "Cash"),
     notes |-> OrStr(data, "notes", ""),
     tags |-> OrObj(data, "tags", <<>>),
     receipt |-> OrStr(data, "receipt", Null),
     location |-> OrStr(data, "location", Null)]

\* new Budget(data) without the `|| 'monthly'` of the period
Budget_periodUndefaulted(data, gid) ==
    [id |-> OrStr(data, "id", gid),
     category |-> OrStr(data, "category", ""),
     amount |-> OrNum(data, "amount", 0),
     period |-> IF "period" \in DOMAIN data THEN data.period ELSE "",
     startDate |-> OrStr(data, "startDate", Today),
     notes |-> OrStr(data, "notes", ""),
     rollover |-> OrBool(data, "rollover", FALSE),
     alerts |-> OrObj(data, "alerts", [warning |-> 80, danger |-> 100])]

Budget(data, gid) ==
    [id |-> OrStr(data, "id", gid),
     category |-> OrStr(data, "category", ""),
     amount |-> OrNum(data, "amount", 0),
     period |-> OrStr(data, "period", "monthly"),
     startDate |-> OrStr(data, "startDate", Today),
     notes |-> OrStr(data, "notes", ""),
     rollover |-> OrBool(data, "rollover", FALSE),
     alerts |-> OrObj(data, "alerts", [warning |-> 80, danger |-> 100])]

\* record.update(data): every property of data that is not undefined is
\* assigned, except id, which update never touches
Income_update(rec, data) ==
    [f \in IncomeFields |->
        IF f # "id" /\ f \in DOMAIN data THEN data[f] ELSE rec[f]]
\* Expense.update without the paymentMethod line
Expense_update_dropsField(rec, data) ==
    [f \in ExpenseFields |->
        IF f \notin {"id", "paymentMethod"} /\ f \in DOMAIN data
        THEN data[f] ELSE rec[f]]
Expense_update(rec, data) ==
    [f \in ExpenseFields |->
        IF f # "id" /\ f \in DOMAIN data THEN data[f] ELSE rec[f]]
Budget_update(rec, data) ==
    [f \in BudgetFields |->
        IF f # "id" /\ f \in DOMAIN data THEN data[f] ELSE rec[f]]

\* record.toJSON(): a plain object with the model's fields
Income_toJSON(rec) == [f \in IncomeFields |-> rec[f]]
Expense_toJSON(rec) == [f \in ExpenseFields |-> rec[f]]
Budget_toJSON(rec) == [f \in BudgetFields |-> rec[f]]

\* ------------------------------------------------------ persistence store
StorageKeys ==
    [INCOME |-> "cashboard_income", EXPENSES |-> "cashboard_expenses",
     BUDGETS |-> "cashboard_budgets", SETTINGS |-> "cashboard_settings",
     USER |-> "cashboard_user"]

KeyNames == {StorageKeys[t] : t \in DOMAIN StorageKeys}

\* JSON text is kept as the value it denotes: for the strings, numbers,
\* booleans, nulls, arrays and plain objects the models hold,
\* JSON.parse(JSON.stringify(v)) yields a value equal to v
JSON_stringify(v) == <<"json", v>>
JSON_parse(text) == text[2]

\* a text that is not JSON, and whether JSON.parse(text) raises
CorruptText == <<"corrupt">>
ParseThrows(text) == text[1] # "json"

NoItem == [exists |-> FALSE, text |-> <<>>]

\* Storage.save(key, data); accepted is whether localStorage.setItem takes
\* the write (it throws when the quota is exceeded, and save returns false)
Storage_save(store, key, data, accepted) ==
    IF accepted
    THEN [ret |-> TRUE,
          store |-> [store EXCEPT
                        ![key] = [exists |-> TRUE,
                                  text |-> JSON_stringify(data)]]]
    ELSE [ret |-> FALSE, store |-> store]

\* Storage.load(key, defaultValue); a text that does not parse is caught
\* and the default returned
Storage_load(store, key, defaultValue) ==
    IF ~store[key].exists THEN defaultValue
    ELSE IF ParseThrows(store[key].text) THEN defaultValue
    ELSE JSON_parse(store[key].text)

StorageUtil_saveData(store, key, data, accepted) ==
    Storage_save(store, key, data, accepted)
StorageUtil_getData(store, key, defaultValue) ==
    Storage_load(store, key, defaultValue)

\* the outcomes a write may have in the current state
WriteOutcomes == IF faults < MaxFaults THEN {TRUE, FALSE} ELSE {TRUE}
Refused(accepted) == IF accepted THEN 0 ELSE 1

\* ------------------------------------------------------------- listeners
\* a callback either returns or raises; it does nothing else
ListenerKinds == {"returns", "throws"}

WriteEntry(kind, accepted) ==
    [t |-> "write", k |-> kind, n |-> 0, ok |-> accepted]
CallEntry(kind, i) ==
    [t |-> "call", k |-> kind, n |-> i, ok |-> eventListeners[i] = "returns"]

\* triggerDataChanged(type): forEach over the listeners in registration
\* order; a listener that raises ends the loop and the exception leaves
\* the caller
triggerDataChanged(type) ==
    LET throwers == {i \in 1..Len(eventListeners) :
                        eventListeners[i] = "throws"}
        upto == IF throwers = {} THEN Len(eventListeners)
                ELSE CHOOSE i \in throwers : \A j \in throwers : i <= j
    IN  [log |-> [i \in 1..upto |-> CallEntry(type, i)],
         threw |-> throwers # {}]

\* what `last` records of a call: its arguments, what it returned
\* ("record" with the index of the returned record, "null", "true",
\* "false", or "threw" when an exception left the call) and the writes and
\* listener calls it made, in order
Call(op, kind, id, data, payload, ret, retIdx, log) ==
    [op |-> op, kind |-> kind, id |-> id, data |-> data, payload |-> payload,
     ret |-> ret, retIdx |-> retIdx, log |-> log]

\* every call and every callback counts towards the bound on the length of
\* a behaviour
Step == calls < MaxCalls /\ calls' = calls + 1

\* a call of the services: it leaves the FileReader as it is
Tick == Step /\ UNCHANGED reader

\* onDataChanged(callback)
onDataChanged ==
    /\ Tick
    /\ Len(eventListeners) < MaxListeners
    /\ \E callback \in ListenerKinds :
        /\ eventListeners' = Append(eventListeners, callback)
        /\ last' = Call("onDataChanged", "", "", <<>>, "", "undefined", 0,
                        <<>>)
    /\ UNCHANGED <<incomeData, expenseData, budgetData, localStorage, faults>>

\* ------------------------------------------------- arguments of the calls
IncomeAddData ==
    { <<>>,
      [id |-> "a", title |-> "pay", amount |-> 5, category |-> "Gift",
       date |-> "2025-02-20"] }
IncomeUpdateData == { [id |-> "zz", category |-> "", amount |-> 7] }

ExpenseAddData ==
    { <<>>,
      [id |-> "a", amount |-> 4, category |-> "Food",
       date |-> "2025-03-03"] }
ExpenseUpdateData == { [id |-> "zz", amount |-> 5, paymentMethod |-> ""] }

BudgetAddData ==
    { <<>>, [id |-> "a", category |-> "Food", amount |-> 5] }
BudgetUpdateData ==
    { [id |-> "zz", period |-> "", alerts |-> [warning |-> 90, danger |-> 80]] }

\* the ids update and delete are called with; "zz" is the id of no record
IdArgs == GenIds \cup {"a", "zz"}

\* indexes of the items that make the constructor call generateID()
NeedId(items) == {i \in 1..Len(items) : OrStr(items[i], "id", "") = ""}
GenChoices(items) == [NeedId(items) -> GenIds]
PickId(g, i) == IF i \in DOMAIN g THEN g[i] ELSE ""

\* array.findIndex(r => r.id === id); 0 stands for -1
findIndex(coll, id) ==
    IF \E i \in 1..Len(coll) : coll[i].id = id
    THEN CHOOSE i \in 1..Len(coll) :
            coll[i].id = id /\ \A j \in 1..(i - 1) : coll[j].id # id
    ELSE 0

\* array.splice(index): without the count, everything from index on goes
splice_toEnd(coll, index) == [i \in 1..(index - 1) |-> coll[i]]

\* array.splice(index, 1)
splice(coll, index) ==
    [i \in 1..(Len(coll) - 1) |-> IF i < index THEN coll[i] ELSE coll[i + 1]]

\* ------------------------------------------------------ income operations
\* saveIncome() on collection coll: serialise, write, notify
saveIncome(coll, store, accepted) ==
    LET data == [i \in 1..Len(coll) |-> Income_toJSON(coll[i])]
        w == StorageUtil_saveData(store, StorageKeys.INCOME, data, accepted)
        n == triggerDataChanged("income")
    IN  [store |-> w.store,
         log |-> <<WriteEntry("income", accepted)>> \o n.log,
         threw |-> n.threw]

\* loadIncome() from the store
loadIncome(store, g) ==
    LET stored == StorageUtil_getData(store, StorageKeys.INCOME, <<>>)
    IN  [i \in 1..Len(stored) |-> Income(stored[i], PickId(g, i))]

addIncome ==
    /\ Tick
    /\ \E data \in IncomeAddData, gid \in GenIds, accepted \in WriteOutcomes :
        \E newIncome \in {Income(data, gid)} :
        \E coll \in {Append(incomeData, newIncome)} :
        \E s \in {saveIncome(coll, localStorage, accepted)} :
            /\ incomeData' = coll
            /\ localStorage' = s.store
            /\ faults' = faults + Refused(accepted)
            /\ last' = Call("add", "income", "", data, "",
                            IF s.threw THEN "threw" ELSE "record",
                            Len(coll), s.log)
    /\ UNCHANGED <<expenseData, budgetData, eventListeners>>

updateIncome ==
    /\ Tick
    /\ \E id \in IdArgs, data \in IncomeUpdateData,
          accepted \in WriteOutcomes :
        \E index \in {findIndex(incomeData, id)} :
            IF index = 0
            THEN /\ accepted
                 /\ last' = Call("update", "income", id, data, "", "null", 0,
                                 <<>>)
                 /\ UNCHANGED <<incomeData, localStorage, faults>>
            ELSE \E coll \in {[incomeData EXCEPT
                        ![index] = Income_update(incomeData[index], data)]} :
                 \E s \in {saveIncome(coll, localStorage, accepted)} :
                 /\ incomeData' = coll
                 /\ localStorage' = s.store
                 /\ faults' = faults + Refused(accepted)
                 /\ last' = Call("update", "income", id, data, "",
                                 IF s.threw THEN "threw" ELSE "record",
                                 index, s.log)
    /\ UNCHANGED <<expenseData, budgetData, eventListeners>>

\* deleteIncome without `if (index === -1) return false`: splice(-1, 1)
\* removes the last record
deleteIncome_noGuard ==
    /\ Tick
    /\ \E id \in IdArgs, accepted \in WriteOutcomes :
        \E index \in {findIndex(incomeData, id)} :
        \E coll \in {IF index = 0
                     THEN SubSeq(incomeData, 1, Len(incomeData) - 1)
                     ELSE splice(incomeData, index)} :
        \E s \in {saveIncome(coll, localStorage, accepted)} :
            /\ incomeData' = coll
            /\ localStorage' = s.store
            /\ faults' = faults + Refused(accepted)
            /\ last' = Call("delete", "income", id, <<>>, "",
                            IF s.threw THEN "threw" ELSE "true", 0, s.log)
    /\ UNCHANGED <<expenseData, budgetData, eventListeners>>

deleteIncome ==
    /\ Tick
    /\ \E id \in IdArgs, accepted \in WriteOutcomes :
        \E index \in {findIndex(incomeData, id)} :
            IF index = 0
            THEN /\ accepted
                 /\ last' = Call("delete", "income", id, <<>>, "", "false", 0,
                                 <<>>)
                 /\ UNCHANGED <<incomeData, localStorage, faults>>
            ELSE \E coll \in {splice(incomeData, index)} :
                 \E s \in {saveIncome(coll, localStorage, accepted)} :
                 /\ incomeData' = coll
                 /\ localStorage' = s.store
                 /\ faults' = faults + Refused(accepted)
                 /\ last' = Call("delete", "income", id, <<>>, "",
                                 IF s.threw THEN "threw" ELSE "true",
                                 0, s.log)
    /\ UNCHANGED <<expenseData, budgetData, eventListeners>>

\* ------------------------------------------------------ expense operations
\* saveExpenses() on collection coll: serialise, write, notify
\* saveExpenses() writing under the key of the income
saveExpenses_incomeKey(coll, store, accepted) ==
    LET data == [i \in 1..Len(coll) |-> Expense_toJSON(coll[i])]
        w == StorageUtil_saveData(store, StorageKeys.INCOME, data, accepted)
        n == triggerDataChanged("expense")
    IN  [store |-> w.store,
         log |-> <<WriteEntry("expense", accepted)>> \o n.log,
         threw |-> n.threw]

saveExpenses(coll, store, accepted) ==
    LET data == [i \in 1..Len(coll) |-> Expense_toJSON(coll[i])]
        w == StorageUtil_saveData(store, StorageKeys.EXPENSES, data, accepted)
        n == triggerDataChanged("expense")
    IN  [store |-> w.store,
         log |-> <<WriteEntry("expense", accepted)>> \o n.log,
         threw |-> n.threw]

\* loadExpenses() from the store
loadExpenses(store, g) ==
    LET stored == StorageUtil_getData(store, StorageKeys.EXPENSES, <<>>)
    IN  [i \in 1..Len(stored) |-> Expense(stored[i], PickId(g, i))]

\* addExpense(data) for data drawn from the set Data
addExpenseOf(Data) ==
    /\ Tick
    /\ \E data \in Data, gid \in GenIds, accepted \in WriteOutcomes :
        \E newExpense \in {Expense(data, gid)} :
        \E coll \in {Append(expenseData, newExpense)} :
        \E s \in {saveExpenses(coll, localStorage, accepted)} :
            /\ expenseData' = coll
            /\ localStorage' = s.store
            /\ faults' = faults + Refused(accepted)
            /\ last' = Call("add", "expense", "", data, "",
                            IF s.threw THEN "threw" ELSE "record",
                            Len(coll), s.log)
    /\ UNCHANGED <<incomeData, budgetData, eventListeners>>

addExpense == addExpenseOf(ExpenseAddData)

updateExpense ==
    /\ Tick
    /\ \E id \in IdArgs, data \in ExpenseUpdateData,
          accepted \in WriteOutcomes :
        \E index \in {findIndex(expenseData, id)} :
            IF index = 0
            THEN /\ accepted
                 /\ last' = Call("update", "expense", id, data, "", "null", 0,
                                 <<>>)
                 /\ UNCHANGED <<expenseData, localStorage, faults>>
            ELSE \E coll \in {[expenseData EXCEPT
                        ![index] = Expense_update(expenseData[index], data)]} :
                 \E s \in {saveExpenses(coll, localStorage, accepted)} :
                 /\ expenseData' = coll
                 /\ localStorage' = s.store
                 /\ faults' = faults + Refused(accepted)
                 /\ last' = Call("update", "expense", id, data, "",
                                 IF s.threw THEN "threw" ELSE "record",
                                 index, s.log)
    /\ UNCHANGED <<incomeData, budgetData, eventListeners>>

deleteExpense ==
    /\ Tick
    /\ \E id \in IdArgs, accepted \in WriteOutcomes :
        \E index \in {findIndex(expenseData, id)} :
            IF index = 0
            THEN /\ accepted
                 /\ last' = Call("delete", "expense", id, <<>>, "", "false", 0,
                                 <<>>)
                 /\ UNCHANGED <<expenseData, localStorage, faults>>
            ELSE \E coll \in {splice(expenseData, index)} :
                 \E s \in {saveExpenses(coll, localStorage, accepted)} :
                 /\ expenseData' = coll
                 /\ localStorage' = s.store
                 /\ faults' = faults + Refused(accepted)
                 /\ last' = Call("delete", "expense", id, <<>>, "",
                                 IF s.threw THEN "threw" ELSE "true",
                                 0, s.log)
    /\ UNCHANGED <<incomeData, budgetData, eventListeners>>

\* ------------------------------------------------------ budget operations
\* saveBudgets() on collection coll: serialise, write, notify
saveBudgets(coll, store, accepted) ==
    LET data == [i \in 1..Len(coll) |-> Budget_toJSON(coll[i])]
        w == StorageUtil_saveData(store, StorageKeys.BUDGETS, data, accepted)
        n == triggerDataChanged("budget")
    IN  [store |-> w.store,
         log |-> <<WriteEntry("budget", accepted)>> \o n.log,
         threw |-> n.threw]

\* loadBudgets() from the store
loadBudgets(store, g) ==
    LET stored == StorageUtil_getData(store, StorageKeys.BUDGETS, <<>>)
    IN  [i \in 1..Len(stored) |-> Budget(stored[i], PickId(g, i))]

\* addBudget(data) for data drawn from the set Data
addBudgetOf(Data) ==
    /\ Tick
    /\ \E data \in Data, gid \in GenIds, accepted \in WriteOutcomes :
        \E newBudget \in {Budget(data, gid)} :
        \E coll \in {Append(budgetData, newBudget)} :
        \E s \in {saveBudgets(coll, localStorage, accepted)} :
            /\ budgetData' = coll
            /\ localStorage' = s.store
            /\ faults' = faults + Refused(accepted)
            /\ last' = Call("add", "budget", "", data, "",
                            IF s.threw THEN "threw" ELSE "record",
                            Len(coll), s.log)
    /\ UNCHANGED <<incomeData, expenseData, eventListeners>>

addBudget == addBudgetOf(BudgetAddData)

updateBudget ==
    /\ Tick
    /\ \E id \in IdArgs, data \in BudgetUpdateData,
          accepted \in WriteOutcomes :
        \E index \in {findIndex(budgetData, id)} :
            IF index = 0
            THEN /\ accepted
                 /\ last' = Call("update", "budget", id, data, "", "null", 0,
                                 <<>>)
                 /\ UNCHANGED <<budgetData, localStorage, faults>>
            ELSE \E coll \in {[budgetData EXCEPT
                        ![index] = Budget_update(budgetData[index], data)]} :
                 \E s \in {saveBudgets(coll, localStorage, accepted)} :
                 /\ budgetData' = coll
                 /\ localStorage' = s.store
                 /\ faults' = faults + Refused(accepted)
                 /\ last' = Call("update", "budget", id, data, "",
                                 IF s.threw THEN "threw" ELSE "record",
                                 index, s.log)
    /\ UNCHANGED <<incomeData, expenseData, eventListeners>>

deleteBudget ==
    /\ Tick
    /\ \E id \in IdArgs, accepted \in WriteOutcomes :
        \E index \in {findIndex(budgetData, id)} :
            IF index = 0
            THEN /\ accepted
                 /\ last' = Call("delete", "budget", id, <<>>, "", "false", 0,
                                 <<>>)
                 /\ UNCHANGED <<budgetData, localStorage, faults>>
            ELSE \E coll \in {splice(budgetData, index)} :
                 \E s \in {saveBudgets(coll, localStorage, accepted)} :
                 /\ budgetData' = coll
                 /\ localStorage' = s.store
                 /\ faults' = faults + Refused(accepted)
                 /\ last' = Call("delete", "budget", id, <<>>, "",
                                 IF s.threw THEN "threw" ELSE "true",
                                 0, s.log)
    /\ UNCHANGED <<incomeData, expenseData, eventListeners>>

\* ------------------------------------------------------------ the lists
\* what a caller does with a list it was returned: reverse it, remove its
\* last element, or assign CallerAmount to the amount of one element
CallerUses == {"reverse", "pop", "assign"}
CallerAmount == 9

\* getAllIncome() and what its caller then does with the value: the result
\* is a new array that holds the records of incomeData themselves, so
\* reordering or shortening it touches only the copy, while an assignment
\* to a field of its i-th element is an assignment to incomeData[i]
getAllIncome ==
    /\ Tick
    /\ \E use \in CallerUses :
        /\ IF use = "assign"
           THEN \E i \in 1..Len(incomeData) :
                    incomeData' = [incomeData EXCEPT ![i].amount = CallerAmount]
           ELSE UNCHANGED incomeData
        /\ last' = Call("getAll", "income", "", <<>>, use, "list", 0, <<>>)
    /\ UNCHANGED <<expenseData, budgetData, eventListeners, localStorage,
                   faults>>

\* getAllExpenses() and what its caller then does with the value
getAllExpenses ==
    /\ Tick
    /\ \E use \in CallerUses :
        /\ IF use = "assign"
           THEN \E i \in 1..Len(expenseData) :
                    expenseData' = [expenseData EXCEPT ![i].amount = CallerAmount]
           ELSE UNCHANGED expenseData
        /\ last' = Call("getAll", "expense", "", <<>>, use, "list", 0, <<>>)
    /\ UNCHANGED <<incomeData, budgetData, eventListeners, localStorage,
                   faults>>

\* getAllBudgets() and what its caller then does with the value
getAllBudgets ==
    /\ Tick
    /\ \E use \in CallerUses :
        /\ IF use = "assign"
           THEN \E i \in 1..Len(budgetData) :
                    budgetData' = [budgetData EXCEPT ![i].amount = CallerAmount]
           ELSE UNCHANGED budgetData
        /\ last' = Call("getAll", "budget", "", <<>>, use, "list", 0, <<>>)
    /\ UNCHANGED <<incomeData, expenseData, eventListeners, localStorage,
                   faults>>

\* ---------------------------------------------------- export and import
\* exportData()
exportData ==
    [income |-> [i \in 1..Len(incomeData) |-> Income_toJSON(incomeData[i])],
     expenses |->
        [i \in 1..Len(expenseData) |-> Expense_toJSON(expenseData[i])],
     budgets |-> [i \in 1..Len(budgetData) |-> Budget_toJSON(budgetData[i])]]

\* the argument of importData: an object whose properties are arrays
\* (array = TRUE, with their items) or truthy values that are not arrays;
\* a null element of an array is NullItem
Arr(items) == [array |-> TRUE, items |-> items]
NotArray == [array |-> FALSE, items |-> <<>>]
NullItem == [isNull |-> TRUE]
IsNull(item) == "isNull" \in DOMAIN item
Without(data, f) == [x \in DOMAIN data \ {f} |-> data[x]]

ForeignIncome ==
    << [id |-> "a", title |-> "pay", amount |-> 5, category |-> "Gift",
        date |-> "2025-02-20", recurring |-> TRUE,
        recurrenceInterval |-> "weekly", notes |-> "n", source |-> "job",
        tags |-> <<"t">>],
       [id |-> "a", title |-> "", amount |-> 0, category |-> "Salary",
        date |-> "2025-03-14", recurring |-> FALSE,
        recurrenceInterval |-> "monthly", notes |-> "", source |-> "",
        tags |-> <<>>] >>
ForeignExpenses ==
    << [id |-> "a", title |-> "lunch", amount |-> 4, category |-> "Food",
        date |-> "2025-03-03", recurring |-> FALSE,
        recurrenceInterval |-> "monthly", paymentMethod |-> "Cash",
        notes |-> "", tags |-> <<>>, receipt |-> Null,
        location |-> Null] >>
ForeignBudgets ==
    << [id |-> "a", category |-> "Food", amount |-> 5,
        period |-> "monthly", startDate |-> "2025-03-01", notes |-> "",
        rollover |-> FALSE, alerts |-> [warning |-> 80, danger |-> 100]] >>
Foreign ==
    [income |-> Arr(ForeignIncome), expenses |-> Arr(ForeignExpenses),
     budgets |-> Arr(ForeignBudgets)]

PayloadNames ==
    {"export", "foreign", "noIncome", "noExpenses", "noBudgets",
     "expensesNotArray", "expensesNullItem"}

\* the payload a name stands for; "export" is what exportData() returns in
\* the current state
Payload(name) ==
    CASE name = "export" ->
            [f \in DOMAIN exportData |-> Arr(exportData[f])]
      [] name = "foreign" -> Foreign
      [] name = "noIncome" -> Without(Foreign, "income")
      [] name = "noExpenses" -> Without(Foreign, "expenses")
      [] name = "noBudgets" -> Without(Foreign, "budgets")
      [] name = "expensesNotArray" -> [Foreign EXCEPT !.expenses = NotArray]
      [] name = "expensesNullItem" ->
            [Foreign EXCEPT
                !.expenses = Arr(Append(ForeignExpenses, NullItem))]

\* data.f; an undefined property behaves as a value that is not an array
\* (calling map on it raises a TypeError)
FieldOf(data, f) == IF f \in DOMAIN data THEN data[f] ELSE NotArray
ItemsOf(data, f) == FieldOf(data, f).items

\* `x.map(item => createFromData(item))` raises a TypeError when x is not
\* an array or when an item is null
MapThrows(field) ==
    ~field.array \/ \E i \in 1..Len(field.items) : IsNull(field.items[i])

\* lines 605-606 with the imported records added to the collection
\* instead of replacing it
importIncome_append(field, g, store, accepted) ==
    IF MapThrows(field)
    THEN [done |-> FALSE, coll |-> incomeData, store |-> store, log |-> <<>>]
    ELSE LET coll == incomeData \o
                        [i \in 1..Len(field.items) |->
                            Income(field.items[i], PickId(g, i))]
             s == saveIncome(coll, store, accepted)
         IN  [done |-> ~s.threw, coll |-> coll, store |-> s.store,
              log |-> s.log]

\* lines 605-606 of importData: replace and save the income collection;
\* done is false when an exception was raised (the map or a listener)
importIncome(field, g, store, accepted) ==
    IF MapThrows(field)
    THEN [done |-> FALSE, coll |-> incomeData, store |-> store, log |-> <<>>]
    ELSE LET coll == [i \in 1..Len(field.items) |->
                        Income(field.items[i], PickId(g, i))]
             s == saveIncome(coll, store, accepted)
         IN  [done |-> ~s.threw, coll |-> coll, store |-> s.store,
              log |-> s.log]

\* lines 609-610
importExpenses(field, g, store, accepted) ==
    IF MapThrows(field)
    THEN [done |-> FALSE, coll |-> expenseData, store |-> store, log |-> <<>>]
    ELSE LET coll == [i \in 1..Len(field.items) |->
                        Expense(field.items[i], PickId(g, i))]
             s == saveExpenses(coll, store, accepted)
         IN  [done |-> ~s.threw, coll |-> coll, store |-> s.store,
              log |-> s.log]

\* lines 613-614
importBudgets(field, g, store, accepted) ==
    IF MapThrows(field)
    THEN [done |-> FALSE, coll |-> budgetData, store |-> store, log |-> <<>>]
    ELSE LET coll == [i \in 1..Len(field.items) |->
                        Budget(field.items[i], PickId(g, i))]
             s == saveBudgets(coll, store, accepted)
         IN  [done |-> ~s.threw, coll |-> coll, store |-> s.store,
              log |-> s.log]

RefusedIn(log) ==
    Cardinality({i \in 1..Len(log) : log[i].t = "write" /\ ~log[i].ok})
Written(log, kind) ==
    \E i \in 1..Len(log) : log[i].t = "write" /\ log[i].k = kind

\* the test without its `!data.budgets` disjunct
Incomplete_twoFields(data) ==
    ~({"income", "expenses"} \subseteq DOMAIN data)

\* the `!data.income || !data.expenses || !data.budgets` test
Incomplete(data) == ~({"income", "expenses", "budgets"} \subseteq DOMAIN data)

\* what the rest of importData does once an exception has been raised
Skipped(coll, store) ==
    [done |-> FALSE, coll |-> coll, store |-> store, log |-> <<>>]

importData ==
    /\ Tick
    /\ \E name \in PayloadNames,
          acc \in [{"income", "expense", "budget"} -> BOOLEAN] :
        \E data \in {Payload(name)} :
        IF Incomplete(data)
        THEN /\ \A k \in DOMAIN acc : acc[k]
             /\ last' = Call("import", "", "", <<>>, name, "false", 0, <<>>)
             /\ UNCHANGED <<incomeData, expenseData, budgetData,
                            localStorage, faults>>
        ELSE \E gi \in GenChoices(ItemsOf(data, "income")),
                ge \in GenChoices(ItemsOf(data, "expenses")),
                gb \in GenChoices(ItemsOf(data, "budgets")) :
             \E a \in {importIncome(FieldOf(data, "income"), gi, localStorage,
                                    acc["income"])} :
             \E b \in {IF a.done
                       THEN importExpenses(FieldOf(data, "expenses"), ge, a.store,
                                           acc["expense"])
                       ELSE Skipped(expenseData, a.store)} :
             \E c \in {IF b.done
                       THEN importBudgets(FieldOf(data, "budgets"), gb, b.store,
                                          acc["budget"])
                       ELSE Skipped(budgetData, b.store)} :
             \E log \in {a.log \o b.log \o c.log} :
                /\ \A k \in DOMAIN acc : ~Written(log, k) => acc[k]
                /\ faults + RefusedIn(log) <= MaxFaults
                /\ incomeData' = a.coll
                /\ expenseData' = b.coll
                /\ budgetData' = c.coll
                /\ localStorage' = c.store
                /\ faults' = faults + RefusedIn(log)
                /\ last' = Call("import", "", "", <<>>, name,
                                IF c.done THEN "true" ELSE "false", 0, log)
    /\ UNCHANGED eventListeners

\* init(): load the three collections from the store
init ==
    /\ Tick
    /\ \E gi \in GenChoices(StorageUtil_getData(localStorage,
                                StorageKeys.INCOME, <<>>)),
          ge \in GenChoices(StorageUtil_getData(localStorage,
                                StorageKeys.EXPENSES, <<>>)),
          gb \in GenChoices(StorageUtil_getData(localStorage,
                                StorageKeys.BUDGETS, <<>>)) :
        /\ incomeData' = loadIncome(localStorage, gi)
        /\ expenseData' = loadExpenses(localStorage, ge)
        /\ budgetData' = loadBudgets(localStorage, gb)
    /\ last' = Call("init", "", "", <<>>, "", "undefined", 0, <<>>)
    /\ UNCHANGED <<eventListeners, localStorage, faults>>

\* ---------------------------------------------------------- budget status
\* getCurrentPeriodDates(periodType) when `new Date()` is the day now: the
\* first and the last day of the window (the end is 23:59:59 of its day)
PeriodDatesAt(now, periodType) ==
    CASE periodType = "daily" ->
            [startDate |-> JSDate(getMonth(now), getDate(now)),
             endDate |-> JSDate(getMonth(now), getDate(now))]
      [] periodType = "weekly" ->
            LET dayOfWeek == getDay(now)
                diff == IF dayOfWeek = 0 THEN 6 ELSE dayOfWeek - 1
                startDate == JSDate(getMonth(now), getDate(now) - diff)
            IN  [startDate |-> startDate,
                 endDate |-> JSDate(getMonth(now), getDate(startDate) + 6)]
      [] periodType = "yearly" ->
            [startDate |-> JSDate(0, 1), endDate |-> JSDate(11, 31)]
      [] OTHER ->
            [startDate |-> JSDate(getMonth(now), 1),
             endDate |-> JSDate(getMonth(now) + 1, 0)]

\* getCurrentPeriodDates(periodType) in the session of the model
getCurrentPeriodDates(periodType) == PeriodDatesAt(Now, periodType)

\* array.reduce((total, r) => total + r.amount, 0)
RECURSIVE SumAmount(_)
SumAmount(coll) ==
    IF Len(coll) = 0 THEN 0 ELSE coll[1].amount + SumAmount(Tail(coll))

\* the predicate of calculateBudgetStatus with the end of the window
\* compared with `<`
InBudgetWindow_exclusiveEnd(expense, budget, window) ==
    /\ expense.category = budget.category
    /\ DateGE(ParseDate(expense.date), window.startDate)
    /\ DateLE(ParseDate(expense.date), window.endDate - 1)

\* array.filter(pred) for the predicate of calculateBudgetStatus
InBudgetWindow(expense, budget, window) ==
    /\ expense.category = budget.category
    /\ DateGE(ParseDate(expense.date), window.startDate)
    /\ DateLE(ParseDate(expense.date), window.endDate)

\* obj.f for a property the object may lack: undefined when it lacks it
Prop(obj, f) ==
    IF f \in DOMAIN obj THEN [defined |-> TRUE, v |-> obj[f]]
    ELSE [defined |-> FALSE, v |-> 0]

\* a percentage is the fraction num/den; `pct >= x` is false when x is
\* undefined (the comparison is with NaN)
PctGE(pct, x) == x.defined /\ pct.num >= x.v * pct.den

\* calculateBudgetStatus without the test of budget.amount > 0: the
\* percentage is spent / amount * 100 also when the amount is 0
calculateBudgetStatus_unguarded(budget) ==
    LET window == getCurrentPeriodDates(budget.period)
        expenses == SelectSeq(expenseData,
                        LAMBDA e : InBudgetWindow(e, budget, window))
        spent == SumAmount(expenses)
        remaining == IF budget.amount - spent > 0
                     THEN budget.amount - spent ELSE 0
        percentSpent == [num |-> spent * 100, den |-> budget.amount]
        warned == PctGE(percentSpent, Prop(budget, "alertThreshold"))
        critical == PctGE(percentSpent, Prop(budget, "criticalThreshold"))
    IN  [id |-> budget.id, category |-> budget.category,
         amount |-> budget.amount, period |-> budget.period,
         spent |-> spent, remaining |-> remaining,
         percentSpent |-> percentSpent,
         status |-> IF critical THEN "danger"
                    ELSE IF warned THEN "warning" ELSE "good",
         startDate |-> window.startDate, endDate |-> window.endDate]

\* calculateBudgetStatus(budget)
calculateBudgetStatus(budget) ==
    LET window == getCurrentPeriodDates(budget.period)
        expenses == SelectSeq(expenseData,
                        LAMBDA e : InBudgetWindow(e, budget, window))
        spent == SumAmount(expenses)
        remaining == IF budget.amount - spent > 0
                     THEN budget.amount - spent ELSE 0
        percentSpent == IF budget.amount > 0
                        THEN [num |-> spent * 100, den |-> budget.amount]
                        ELSE [num |-> 100, den |-> 1]
        warned == PctGE(percentSpent, Prop(budget, "alertThreshold"))
        critical == PctGE(percentSpent, Prop(budget, "criticalThreshold"))
    IN  [id |-> budget.id, category |-> budget.category,
         amount |-> budget.amount, period |-> budget.period,
         spent |-> spent, remaining |-> remaining,
         percentSpent |-> percentSpent,
         status |-> IF critical THEN "danger"
                    ELSE IF warned THEN "warning" ELSE "good",
         startDate |-> window.startDate, endDate |-> window.endDate]

\* getBudgetStatus() without an id: the status of every budget
getBudgetStatus ==
    [i \in 1..Len(budgetData) |-> calculateBudgetStatus(budgetData[i])]

\* `pct < x`, false when x is undefined
PctLT(pct, x) == x.defined /\ pct.num < x.v * pct.den

\* Math.round of a percentage; Math_round is defined further down for the
\* same rounding
RoundPct(pct) == (2 * pct.num + pct.den) \div (2 * pct.den)

\* the text of an item of an insight, held as the values it is made of:
\* `${category}: Spent ${spent} of ${amount} (${Math.round(percentSpent)}%)`
InsightItem(status) ==
    [category |-> status.category, spent |-> status.spent,
     amount |-> status.amount, percent |-> RoundPct(status.percentSpent)]

\* one group of getBudgetInsights: pushed only when it has items
InsightGroup(type, title, statuses) ==
    IF Len(statuses) > 0
    THEN << [type |-> type, title |-> title,
             items |-> [i \in 1..Len(statuses) |-> InsightItem(statuses[i])]] >>
    ELSE <<>>

\* getBudgetInsights(): status.alertThreshold and status.criticalThreshold
\* are read from the status objects calculateBudgetStatus returns
getBudgetInsights ==
    LET budgetStatuses == getBudgetStatus
        overspent == SelectSeq(budgetStatuses,
                        LAMBDA status : status.spent > status.amount)
        approaching == SelectSeq(budgetStatuses,
                        LAMBDA status :
                            /\ PctGE(status.percentSpent,
                                     Prop(status, "alertThreshold"))
                            /\ PctLT(status.percentSpent,
                                     Prop(status, "criticalThreshold")))
        healthy == SelectSeq(budgetStatuses,
                        LAMBDA status :
                            PctLT(status.percentSpent,
                                  Prop(status, "alertThreshold")))
    IN  InsightGroup("danger", "Budget Overspending", overspent)
        \o InsightGroup("warning", "Approaching Budget Limit", approaching)
        \o InsightGroup("success", "Healthy Budget Categories", healthy)

\* getBudgetTips(): the tips are held by their type and icon
RECURSIVE SumSpent(_)
SumSpent(statuses) ==
    IF Len(statuses) = 0 THEN 0
    ELSE statuses[1].spent + SumSpent(Tail(statuses))

getBudgetTips ==
    LET budgetStatuses == getBudgetStatus
        overspent == SelectSeq(budgetStatuses,
                        LAMBDA status : status.spent > status.amount)
        totalBudget == SumAmount(budgetData)
        totalSpent == SumSpent(budgetStatuses)
        percentSpent == IF totalBudget > 0
                        THEN [num |-> totalSpent * 100, den |-> totalBudget]
                        ELSE [num |-> 100, den |-> 1]
    IN  (IF Len(overspent) > 0
         THEN << [type |-> "danger", icon |-> "warning"] >> ELSE <<>>)
        \o (IF percentSpent.num > 90 * percentSpent.den
            THEN << [type |-> "warning", icon |-> "insights"] >>
            ELSE IF percentSpent.num < 50 * percentSpent.den
            THEN << [type |-> "success", icon |-> "thumb_up"] >>
            ELSE <<>>)
        \o (IF Len(budgetData) = 0
            THEN << [type |-> "warning", icon |-> "add_circle"] >> ELSE <<>>)

\* ------------------------------------------------ the store's operations
\* StorageUtil.DEFAULT_SETTINGS
DEFAULT_SETTINGS ==
    [theme |-> "light", currency |-> "INR", currencySymbol |-> "₹",
     language |-> "en", notifications |-> TRUE, dateFormat |-> "DD/MM/YYYY",
     firstTimeSetup |-> TRUE]

\* the object literal Storage.loadSettings passes as the default
LoadSettingsDefault ==
    [theme |-> "light", currency |-> "USD", language |-> "en",
     notifications |-> TRUE, dateFormat |-> "YYYY-MM-DD"]

\* { ...a, ...b }
Spread(a, b) ==
    [f \in DOMAIN a \cup DOMAIN b |-> IF f \in DOMAIN b THEN b[f] ELSE a[f]]

\* Storage.remove(key); available is whether localStorage can be reached
\* (removeItem raises when it cannot, and remove returns false)
Storage_remove(store, key, available) ==
    IF available
    THEN [ret |-> TRUE, store |-> [store EXCEPT ![key] = NoItem]]
    ELSE [ret |-> FALSE, store |-> store]

\* Storage.exists(key), when localStorage can be reached
Storage_exists(store, key) == store[key].exists

\* Storage.clearAll()
Storage_clearAll(store, available) ==
    IF available
    THEN [ret |-> TRUE, store |-> [k \in KeyNames |-> NoItem]]
    ELSE [ret |-> FALSE, store |-> store]

\* Storage.exportData(): load(key) of every known key, with null for a
\* key that is absent or does not parse, as one JSON text
Storage_exportData(store) ==
    JSON_stringify([type \in DOMAIN StorageKeys |->
                        Storage_load(store, StorageKeys[type], NullItem)])

\* the types importData saves: the properties of data that name a key
SavedTypes(data) == DOMAIN data \cap DOMAIN StorageKeys

\* Storage.importData(jsonData); acc[type] is whether the write of that
\* type is accepted.  JSON.parse raising, or Object.entries(null) raising,
\* is caught and false returned; the result of each save is dropped
Storage_importData(store, jsonData, acc) ==
    IF ParseThrows(jsonData) THEN [ret |-> FALSE, store |-> store]
    ELSE IF IsNull(JSON_parse(jsonData)) THEN [ret |-> FALSE, store |-> store]
    ELSE LET data == JSON_parse(jsonData)
             typeOf(k) == CHOOSE type \in DOMAIN StorageKeys :
                                StorageKeys[type] = k
         IN  [ret |-> TRUE,
              store |->
                [k \in KeyNames |->
                    IF typeOf(k) \in SavedTypes(data) /\ acc[typeOf(k)]
                    THEN Storage_save(store, k, data[typeOf(k)], TRUE).store[k]
                    ELSE store[k]]]

\* Storage.saveSettings(settings) and Storage.loadSettings()
Storage_saveSettings(store, settings, accepted) ==
    Storage_save(store, StorageKeys.SETTINGS, settings, accepted)
Storage_loadSettings(store) ==
    Storage_load(store, StorageKeys.SETTINGS, LoadSettingsDefault)

\* StorageUtil.saveSettings(settings) and StorageUtil.getSettings()
StorageUtil_saveSettings(store, settings, accepted) ==
    Storage_saveSettings(store, Spread(DEFAULT_SETTINGS, settings), accepted)
StorageUtil_getSettings(store) == Storage_loadSettings(store)

\* what `last` records of a call of the store: the key and the argument,
\* what it returned, whether an exception left it, and whether
\* localStorage raised or refused a write during it
StoreCall(op, key, arg, ret, threw, failed) ==
    [op |-> op, key |-> key, arg |-> arg, ret |-> ret, threw |-> threw,
     failed |-> failed]

\* the keys the single-key operations are called with, and their arguments
StoreOpKeys == {StorageKeys.INCOME, StorageKeys.SETTINGS}
SaveArgs(key) ==
    IF key = StorageKeys.SETTINGS THEN { [theme |-> "dark"] }
    ELSE { <<[id |-> "a", amount |-> 5]>> }
LoadDefaults(key) ==
    IF key = StorageKeys.SETTINGS THEN {DEFAULT_SETTINGS, NullItem}
    ELSE { <<>> }
SettingsArgs == { <<>>, [theme |-> "dark"], [savingsTarget |-> 30] }

\* the texts importData is called with: what exportData returns in the
\* current state, a text that is not JSON, the text `null`, and an object
\* with one known and one unknown property
ImportTextNames == {"export", "corrupt", "null", "partial"}
ImportText(name) ==
    CASE name = "export" -> Storage_exportData(localStorage)
      [] name = "corrupt" -> CorruptText
      [] name = "null" -> JSON_stringify(NullItem)
      [] name = "partial" ->
            JSON_stringify([SETTINGS |-> [theme |-> "dark"],
                            VERSION |-> [theme |-> "1"]])

\* Storage.save(key, data), which StorageUtil.saveData(key, data) calls
CallSave ==
    /\ Tick
    /\ \E key \in StoreOpKeys, accepted \in WriteOutcomes :
        \E data \in SaveArgs(key) :
        \E r \in {Storage_save(localStorage, key, data, accepted)} :
            /\ localStorage' = r.store
            /\ faults' = faults + Refused(accepted)
            /\ last' = StoreCall("save", key, data, r.ret, FALSE, ~accepted)
    /\ UNCHANGED <<incomeData, expenseData, budgetData, eventListeners>>

\* Storage.load(key, defaultValue); when localStorage cannot be reached
\* getItem raises, which is caught and the default returned
CallLoad ==
    /\ Tick
    /\ \E key \in StoreOpKeys, available \in WriteOutcomes :
        \E defaultValue \in LoadDefaults(key) :
            /\ faults' = faults + Refused(available)
            /\ last' = StoreCall("load", key, defaultValue,
                            IF available
                            THEN Storage_load(localStorage, key, defaultValue)
                            ELSE defaultValue,
                            FALSE, ~available)
    /\ UNCHANGED <<incomeData, expenseData, budgetData, eventListeners,
                   localStorage>>

\* Storage.remove(key)
CallRemove ==
    /\ Tick
    /\ \E key \in StoreOpKeys, available \in WriteOutcomes :
        \E r \in {Storage_remove(localStorage, key, available)} :
            /\ localStorage' = r.store
            /\ faults' = faults + Refused(available)
            /\ last' = StoreCall("remove", key, <<>>, r.ret, FALSE, ~available)
    /\ UNCHANGED <<incomeData, expenseData, budgetData, eventListeners>>

\* Storage.exists(key): `return localStorage.getItem(key) !== null` with no
\* try around it, so that getItem raising leaves the call as an exception
CallExists ==
    /\ Tick
    /\ \E key \in StoreOpKeys, available \in WriteOutcomes :
        /\ faults' = faults + Refused(available)
        /\ last' = StoreCall("exists", key, <<>>,
                        available /\ Storage_exists(localStorage, key),
                        ~available, ~available)
    /\ UNCHANGED <<incomeData, expenseData, budgetData, eventListeners,
                   localStorage>>

\* Storage.clearAll()
CallClearAll ==
    /\ Tick
    /\ \E available \in WriteOutcomes :
        \E r \in {Storage_clearAll(localStorage, available)} :
            /\ localStorage' = r.store
            /\ faults' = faults + Refused(available)
            /\ last' = StoreCall("clearAll", "", <<>>, r.ret, FALSE, ~available)
    /\ UNCHANGED <<incomeData, expenseData, budgetData, eventListeners>>

\* Storage.exportData(); every load of an unreachable localStorage gives
\* its default, null
CallExportData ==
    /\ Tick
    /\ \E available \in WriteOutcomes :
        /\ faults' = faults + Refused(available)
        /\ last' = StoreCall("exportData", "", <<>>,
                        IF available THEN Storage_exportData(localStorage)
                        ELSE Storage_exportData([k \in KeyNames |-> NoItem]),
                        FALSE, ~available)
    /\ UNCHANGED <<incomeData, expenseData, budgetData, eventListeners,
                   localStorage>>

\* Storage.importData(jsonData)
CallImportData ==
    /\ Tick
    /\ \E name \in ImportTextNames, acc \in [DOMAIN StorageKeys -> BOOLEAN] :
        \E jsonData \in {ImportText(name)} :
        \E r \in {Storage_importData(localStorage, jsonData, acc)} :
        \E refused \in {{type \in DOMAIN acc : ~acc[type]}} :
            /\ r.ret => refused \subseteq SavedTypes(JSON_parse(jsonData))
            /\ ~r.ret => refused = {}
            /\ faults + Cardinality(refused) <= MaxFaults
            /\ localStorage' = r.store
            /\ faults' = faults + Cardinality(refused)
            /\ last' = StoreCall("importData", "", name, r.ret, FALSE,
                                 refused # {})
    /\ UNCHANGED <<incomeData, expenseData, budgetData, eventListeners>>

\* StorageUtil.saveSettings(settings)
CallSaveSettings ==
    /\ Tick
    /\ \E settings \in SettingsArgs, accepted \in WriteOutcomes :
        \E r \in {StorageUtil_saveSettings(localStorage, settings, accepted)} :
            /\ localStorage' = r.store
            /\ faults' = faults + Refused(accepted)
            /\ last' = StoreCall("saveSettings", StorageKeys.SETTINGS, settings,
                                 r.ret, FALSE, ~accepted)
    /\ UNCHANGED <<incomeData, expenseData, budgetData, eventListeners>>

\* StorageUtil.getSettings()
CallGetSettings ==
    /\ Tick
    /\ \E available \in WriteOutcomes :
        /\ faults' = faults + Refused(available)
        /\ last' = StoreCall("getSettings", StorageKeys.SETTINGS, <<>>,
                        IF available THEN StorageUtil_getSettings(localStorage)
                        ELSE LoadSettingsDefault,
                        FALSE, ~available)
    /\ UNCHANGED <<incomeData, expenseData, budgetData, eventListeners,
                   localStorage>>

\* something other than Storage (another script of the origin, the
\* browser's developer tools) leaves a text that is not JSON under a key
ForeignWrite ==
    /\ Tick
    /\ \E key \in StoreOpKeys :
        /\ localStorage' = [localStorage EXCEPT
                                ![key] = [exists |-> TRUE, text |-> CorruptText]]
        /\ last' = StoreCall("setItem", key, <<>>, TRUE, FALSE, FALSE)
    /\ UNCHANGED <<incomeData, expenseData, budgetData, eventListeners,
                   faults>>

\* ------------------------------------------------------------ file import
\* FileReader: readyState and, once the read is done, result (the text
\* read); no import has been started while there is no reader
NoReader == [readyState |-> "NONE", result |-> <<>>]
Reading(file) == [readyState |-> "LOADING", result |-> file.text]
Done(text) == [readyState |-> "DONE", result |-> text]

\* the records of the files: the arrays the Data Service stores, one
\* record of each kind
FileIncome == <<ForeignIncome[1]>>
FileExpenses == ForeignExpenses
FileBudgets == ForeignBudgets
FileData ==
    [INCOME |-> FileIncome, EXPENSES |-> FileExpenses,
     BUDGETS |-> FileBudgets]

\* the files importDataFromFile is called with: an export of another
\* session, one that holds income only, a JSON file whose text does not
\* parse, and the same export under another media type
Files ==
    { [type |-> "application/json", text |-> JSON_stringify(FileData)],
      [type |-> "application/json",
       text |-> JSON_stringify([INCOME |-> FileIncome])],
      [type |-> "application/json", text |-> CorruptText],
      [type |-> "text/plain", text |-> JSON_stringify(FileData)] }

\* what `last` records of a step of a file import: the file's text, how
\* the promise stands ("pending", "resolved", "rejected") and whether
\* localStorage refused a write during it
FileCall(op, text, promise, failed) ==
    [op |-> op, kind |-> "", text |-> text, promise |-> promise,
     failed |-> failed, log |-> <<>>]

\* importDataFromFile(file): the promise is rejected at once for a file
\* that is not JSON, else the read is started; one import at a time
importDataFromFile ==
    /\ Step
    /\ reader.readyState # "LOADING"
    /\ \E file \in Files :
        IF file.type # "application/json"
        THEN /\ reader' = reader
             /\ last' = FileCall("importDataFromFile", file.text, "rejected",
                                 FALSE)
        ELSE /\ reader' = Reading(file)
             /\ last' = FileCall("importDataFromFile", file.text, "pending",
                                 FALSE)
    /\ UNCHANGED <<incomeData, expenseData, budgetData, eventListeners,
                   localStorage, faults>>

\* reader.onload: the read has finished; Storage.importData(jsonData)
\* writes the store, and the promise is resolved or rejected by its result
reader_onload ==
    /\ Step
    /\ reader.readyState = "LOADING"
    /\ \E acc \in [DOMAIN StorageKeys -> BOOLEAN] :
        \E jsonData \in {reader.result} :
        \E r \in {Storage_importData(localStorage, jsonData, acc)} :
        \E refused \in {{type \in DOMAIN acc : ~acc[type]}} :
            /\ r.ret => refused \subseteq SavedTypes(JSON_parse(jsonData))
            /\ ~r.ret => refused = {}
            /\ faults + Cardinality(refused) <= MaxFaults
            /\ localStorage' = r.store
            /\ faults' = faults + Cardinality(refused)
            /\ reader' = Done(jsonData)
            /\ last' = FileCall("onload", jsonData,
                                IF r.ret THEN "resolved" ELSE "rejected",
                                refused # {})
    /\ UNCHANGED <<incomeData, expenseData, budgetData, eventListeners>>

\* reader.onerror: the file could not be read; the promise is rejected
reader_onerror ==
    /\ Step
    /\ reader.readyState = "LOADING"
    /\ reader' = Done(<<>>)
    /\ last' = FileCall("onerror", <<>>, "rejected", FALSE)
    /\ UNCHANGED <<incomeData, expenseData, budgetData, eventListeners,
                   localStorage, faults>>

\* ------------------------------------------------------------------ CashBot
\* DEFAULT_ALLOCATIONS
DEFAULT_ALLOCATIONS ==
    [savings |-> 20, investment |-> 10, emergency |-> 5, leisure |-> 5]

\* FINANCIAL_TIPS[group][n]: the tip texts are held by their place
Tip(group, n) == [tips |-> group, n |-> n]

\* a number that is not an integer: the fraction num/den with den > 0, or
\* NaN
Rat(num, den) == [nan |-> FALSE, num |-> num, den |-> den]
NaN == [nan |-> TRUE, num |-> 0, den |-> 1]

Min(a, b) == IF a <= b THEN a ELSE b
Max(a, b) == IF a >= b THEN a ELSE b

\* Math.round(num/den) for den > 0: the nearest integer, a half going up
Math_round(num, den) == (2 * num + den) \div (2 * den)

\* getAllocationSettings()
getAllocationSettings(store) ==
    LET settings == StorageUtil_getData(store, StorageKeys.SETTINGS,
                                        DEFAULT_SETTINGS)
    IN  [savings |-> OrNum(settings, "savingsTarget",
                           DEFAULT_ALLOCATIONS.savings),
         investment |-> DEFAULT_ALLOCATIONS.investment,
         emergency |-> DEFAULT_ALLOCATIONS.emergency,
         leisure |-> DEFAULT_ALLOCATIONS.leisure]

HealthResult(status, score, recommendations) ==
    [status |-> status, score |-> score, recommendations |-> recommendations]

\* the last case of analyzeFinancialHealth: the score is
\* Math.round(min(savingsRate * 2, 50) + max(0, 50 - expenseRatio * 50)),
\* held as a fraction over totalIncome, and the status and the tips
\* follow from it
ScoredHealth(summary) ==
    LET totalIncome == summary.totalIncome
        savingsScore == Min(summary.savingsRate * 2, 50)
        expenseScore == Max(0, 50 * totalIncome - 50 * summary.totalExpenses)
        score == Math_round(savingsScore * totalIncome + expenseScore,
                            totalIncome)
    IN  IF score >= 80
        THEN HealthResult("healthy", score,
                    <<Tip("excellent", 0), Tip("excellent", 1)>>)
        ELSE IF score >= 60
        THEN HealthResult("healthy", score, <<Tip("goodSavings", 0)>>)
        ELSE IF score >= 40
        THEN HealthResult("warning", score,
                    <<Tip("lowSavings", 0), Tip("lowSavings", 1)>>)
        ELSE HealthResult("danger", score,
                    <<Tip("highExpenses", 0), Tip("highExpenses", 2)>>)

\* analyzeFinancialHealth with the overspending case tested first
analyzeFinancialHealth_overspendingFirst(summary) ==
    IF summary.totalExpenses > summary.totalIncome
    THEN HealthResult("danger", 30,
                <<Tip("highExpenses", 0), Tip("highExpenses", 1)>>)
    ELSE IF summary.totalIncome <= 0
    THEN HealthResult("warning", 50, <<Tip("noIncome", 0)>>)
    ELSE IF summary.totalExpenses <= 0 /\ summary.totalIncome > 0
    THEN HealthResult("warning", 60, <<Tip("noExpenses", 0)>>)
    ELSE ScoredHealth(summary)

\* analyzeFinancialHealth(summary)
analyzeFinancialHealth(summary) ==
    IF summary.totalIncome <= 0
    THEN HealthResult("warning", 50, <<Tip("noIncome", 0)>>)
    ELSE IF summary.totalExpenses <= 0 /\ summary.totalIncome > 0
    THEN HealthResult("warning", 60, <<Tip("noExpenses", 0)>>)
    ELSE IF summary.totalExpenses > summary.totalIncome
    THEN HealthResult("danger", 30,
                <<Tip("highExpenses", 0), Tip("highExpenses", 1)>>)
    ELSE ScoredHealth(summary)

\* budgets[category] || 0
BudgetOf(budgets, category) ==
    IF category \in DOMAIN budgets THEN budgets[category] ELSE 0

\* (spent / budget) * 100 >= 100, for a budget that is not 0
PercentAtLeast100(spent, budget) ==
    IF budget > 0 THEN spent * 100 >= 100 * budget
    ELSE spent * 100 <= 100 * budget

OverBudgetEntry(e, budget) ==
    [category |-> e.category, budget |-> budget, spent |-> e.spent,
     percentSpent |-> Rat(e.spent * 100, budget),
     overage |-> e.spent - budget]

\* a.percentSpent >= b.percentSpent, for positive budgets
PercentGE(a, b) ==
    a.percentSpent.num * b.percentSpent.den
        >= b.percentSpent.num * a.percentSpent.den

\* overBudget.sort((a, b) => a.percentSpent - b.percentSpent)
RECURSIVE sort_ascending(_)
sort_ascending(arr) ==
    IF Len(arr) = 0 THEN arr
    ELSE LET sorted == sort_ascending(SubSeq(arr, 1, Len(arr) - 1))
             x == arr[Len(arr)]
             before == SelectSeq(sorted, LAMBDA y : PercentGE(x, y))
             after == SelectSeq(sorted, LAMBDA y : ~PercentGE(x, y))
         IN  before \o <<x>> \o after

\* overBudget.sort((a, b) => b.percentSpent - a.percentSpent): a stable
\* sort, an element going behind the earlier ones that are not smaller
RECURSIVE sort(_)
sort(arr) ==
    IF Len(arr) = 0 THEN arr
    ELSE LET sorted == sort(SubSeq(arr, 1, Len(arr) - 1))
             x == arr[Len(arr)]
             before == SelectSeq(sorted, LAMBDA y : PercentGE(y, x))
             after == SelectSeq(sorted, LAMBDA y : ~PercentGE(y, x))
         IN  before \o <<x>> \o after

\* getOverBudgetCategories(summary, budgets)
getOverBudgetCategories(summary, budgets) ==
    LET entries == summary.expensesByCategory
        over == SelectSeq(entries,
                    LAMBDA e :
                        /\ BudgetOf(budgets, e.category) # 0
                        /\ PercentAtLeast100(e.spent,
                                BudgetOf(budgets, e.category)))
    IN  sort([i \in 1..Len(over) |->
                OverBudgetEntry(over[i], BudgetOf(budgets, over[i].category))])

\* optimizeBudget(summary); store is what localStorage holds.
\* getBudgetByCategory() without a category finds no budget and gives null
optimizeBudget(summary, store) ==
    IF summary.totalIncome <= 0 \/ summary.totalExpenses <= 0 THEN NullItem
    ELSE
    LET totalIncome == summary.totalIncome
        totalExpenses == summary.totalExpenses
        entries == summary.expensesByCategory
        settings == StorageUtil_getData(store, StorageKeys.SETTINGS,
                                        DEFAULT_SETTINGS)
        savingsTarget == Prop(settings, "savingsTarget")
        \* totalIncome * (settings.savingsTarget / 100)
        targetSavingsAmount ==
            IF savingsTarget.defined
            THEN Rat(totalIncome * savingsTarget.v, 100) ELSE NaN
        \* totalIncome - targetSavingsAmount
        targetTotalExpenses ==
            IF targetSavingsAmount.nan THEN NaN
            ELSE Rat(100 * totalIncome - targetSavingsAmount.num, 100)
        \* a comparison with NaN is false
        adjustmentFactor ==
            IF /\ ~targetTotalExpenses.nan
               /\ totalExpenses * 100 > targetTotalExpenses.num
            THEN Rat(targetTotalExpenses.num, 100 * totalExpenses)
            ELSE Rat(1, 1)
    IN  [currentBudgets |-> NullItem,
         optimizedBudget |->
            [c \in {entries[i].category : i \in 1..Len(entries)} |->
                LET spent == (CHOOSE i \in 1..Len(entries) :
                                    entries[i].category = c)
                    currentSpending == entries[spent].spent
                IN  Math_round(currentSpending * adjustmentFactor.num * 11,
                               adjustmentFactor.den * 10)],
         recommendedSavings |-> targetSavingsAmount]

\* what `last` records of a call of CashBot
BotCall(op, args, ret) == [op |-> op, args |-> args, ret |-> ret]

\* the summaries analyzeFinancialHealth is called with.  The expense
\* ratios are multiples of 1/4, which binary floating point holds exactly
HealthSummaries ==
    [totalIncome : {-5, 0, 100, 200}, totalExpenses : {-1, 0, 50, 100, 150},
     balance : {0, 7}, savingsRate : {-10, 5, 15, 25, 40},
     expensesByCategory : { <<>> }]

\* summary.expensesByCategory is held as the sequence of its
\* [category, spent] entries, in the order `for ... in` visits the keys
\* (the order they were inserted in)
Categories == {"Food", "Rent", "Fun"}
KeyOrders == { <<"Food", "Rent", "Fun">>, <<"Fun", "Rent", "Food">> }
Entries(order, spent) ==
    [i \in 1..Len(order) |-> [category |-> order[i], spent |-> spent[order[i]]]]
SpendingSummaries ==
    { [totalIncome |-> 200, totalExpenses |-> 100, balance |-> 100,
       savingsRate |-> 50, expensesByCategory |-> Entries(order, spent)] :
        order \in KeyOrders,
        spent \in {f \in [Categories -> {40, 120}] : f["Fun"] = 120} }

\* the budgets argument: an object with an amount for some categories
BudgetMaps ==
    UNION { [D -> {0, 60, 120}] : D \in {Categories, Categories \ {"Fun"}} }

\* the summaries optimizeBudget is called with
OptimizeSummaries ==
    [totalIncome : {0, 100, 200}, totalExpenses : {0, 100, 150},
     balance : {0}, savingsRate : {0},
     expensesByCategory :
        { <<>>, Entries(<<"Food", "Rent">>, [Food |-> 60, Rent |-> 40]) }]

CallAnalyzeFinancialHealth ==
    /\ Tick
    /\ \E summary \in HealthSummaries :
        last' = BotCall("analyzeFinancialHealth", [summary |-> summary],
                        analyzeFinancialHealth(summary))
    /\ UNCHANGED <<incomeData, expenseData, budgetData, eventListeners,
                   localStorage, faults>>

CallGetOverBudgetCategories ==
    /\ Tick
    /\ \E summary \in SpendingSummaries, budgets \in BudgetMaps :
        last' = BotCall("getOverBudgetCategories",
                        [summary |-> summary, budgets |-> budgets],
                        getOverBudgetCategories(summary, budgets))
    /\ UNCHANGED <<incomeData, expenseData, budgetData, eventListeners,
                   localStorage, faults>>

CallOptimizeBudget ==
    /\ Tick
    /\ \E summary \in OptimizeSummaries :
        last' = BotCall("optimizeBudget", [summary |-> summary],
                        optimizeBudget(summary, localStorage))
    /\ UNCHANGED <<incomeData, expenseData, budgetData, eventListeners,
                   localStorage, faults>>

\* ------------------------------------------- budgets and their expenses
\* budgets of the four periods, one of them with no amount, and expenses on
\* and around the bounds of the current week (Monday 10 to Sunday 16 March
\* 2025) and month, one with a date that is no date, one of today
BudgetStatusData ==
    { [id |-> "w", category |-> "Food", amount |-> 5, period |-> "weekly"],
      [id |-> "m", category |-> "Food", amount |-> 10, period |-> "monthly"],
      [id |-> "d", category |-> "Rent", period |-> "daily"],
      [id |-> "y", category |-> "Rent", amount |-> 3, period |-> "yearly"] }
ExpenseStatusData ==
    { [id |-> "e1", category |-> "Food", amount |-> 1, date |-> "2025-03-10"],
      [id |-> "e2", category |-> "Food", amount |-> 2, date |-> "2025-03-16"],
      [id |-> "e3", category |-> "Food", amount |-> 4, date |-> "2025-03-01"],
      [id |-> "e4", category |-> "Food", amount |-> 8, date |-> "2025-03-31"],
      [id |-> "e5", category |-> "Food", amount |-> 16, date |-> "2025-02-20"],
      [id |-> "e6", category |-> "Food", amount |-> 32, date |-> "soon"],
      [id |-> "e7", category |-> "Rent", amount |-> 4] }

addPeriodBudget == addBudgetOf(BudgetStatusData)
addDatedExpense == addExpenseOf(ExpenseStatusData)

\* ------------------------------------------------------------ the periods
\* the days `new Date()` may be: January to April and December 2025, with
\* the turns of four months and of the year at both ends
NowDays == (1..120) \cup (335..365)
PeriodTypes == {"daily", "weekly", "monthly", "yearly"}

\* what `last` records of a call of getCurrentPeriodDates
PeriodCall(now, periodType, ret) ==
    [op |-> "getCurrentPeriodDates", now |-> now, periodType |-> periodType,
     ret |-> ret]

CallGetCurrentPeriodDates ==
    /\ Tick
    /\ \E now \in NowDays, periodType \in PeriodTypes :
        last' = PeriodCall(now, periodType, PeriodDatesAt(now, periodType))
    /\ UNCHANGED <<incomeData, expenseData, budgetData, eventListeners,
                   localStorage, faults>>

\* ----------------------------------------------------------------- queries
\* a date argument of a query: null (the default) or a Date, held as its day
NoDate == [given |-> FALSE, day |-> 0]
Date(day) == [given |-> TRUE, day |-> day]

\* the filter of the totals with the end bound compared with `<`
InRange_exclusiveEnd(rec, startDate, endDate) ==
    LET date == ParseDate(rec.date)
    IN  /\ ~startDate.given \/ DateGE(date, startDate.day)
        /\ ~endDate.given \/ (date.valid /\ date.day < endDate.day)

\* (!startDate || date >= startDate) && (!endDate || date <= endDate)
\* with date = new Date(record.date)
InRange(rec, startDate, endDate) ==
    LET date == ParseDate(rec.date)
    IN  /\ ~startDate.given \/ DateGE(date, startDate.day)
        /\ ~endDate.given \/ DateLE(date, endDate.day)

\* getTotalIncome(startDate, endDate)
getTotalIncome(startDate, endDate) ==
    IF ~startDate.given /\ ~endDate.given
    THEN SumAmount(incomeData)
    ELSE SumAmount(SelectSeq(incomeData,
                    LAMBDA income : InRange(income, startDate, endDate)))

\* getTotalExpenses(startDate, endDate)
getTotalExpenses(startDate, endDate) ==
    IF ~startDate.given /\ ~endDate.given
    THEN SumAmount(expenseData)
    ELSE SumAmount(SelectSeq(expenseData,
                    LAMBDA expense : InRange(expense, startDate, endDate)))

\* the forEach of the by-category queries with `=` in place of `+=`
RECURSIVE GroupByCategory_overwrite(_, _)
GroupByCategory_overwrite(filtered, result) ==
    IF Len(filtered) = 0 THEN result
    ELSE LET r == Head(filtered)
         IN  GroupByCategory_overwrite(Tail(filtered),
                [c \in DOMAIN result \cup {r.category} |->
                    IF c = r.category THEN r.amount ELSE result[c]])

\* filtered.forEach(r => { if (!result[r.category]) result[r.category] = 0;
\* result[r.category] += r.amount; }); an object is a function from its
\* keys, a missing key and a key holding 0 are both falsy
RECURSIVE GroupByCategory(_, _)
GroupByCategory(filtered, result) ==
    IF Len(filtered) = 0 THEN result
    ELSE LET r == Head(filtered)
             seen == r.category \in DOMAIN result /\ result[r.category] # 0
             base == IF seen THEN result[r.category] ELSE 0
         IN  GroupByCategory(Tail(filtered),
                [c \in DOMAIN result \cup {r.category} |->
                    IF c = r.category THEN base + r.amount ELSE result[c]])

\* getIncomeByCategory(startDate, endDate)
getIncomeByCategory(startDate, endDate) ==
    GroupByCategory(SelectSeq(incomeData,
                        LAMBDA income : InRange(income, startDate, endDate)),
                    <<>>)

\* getExpensesByCategory(startDate, endDate)
getExpensesByCategory(startDate, endDate) ==
    GroupByCategory(SelectSeq(expenseData,
                        LAMBDA expense : InRange(expense, startDate, endDate)),
                    <<>>)

\* ------------------------------------------------------ the query calls
\* the calls that only read: what each returns in the current state, with
\* no date arguments
QueryOps ==
    {"getAllIncome", "getAllExpenses", "getAllBudgets", "getTotalIncome",
     "getTotalExpenses", "getIncomeByCategory", "getExpensesByCategory",
     "getBudgetStatus", "getBudgetInsights", "getBudgetTips", "exportData"}

QueryResult(name) ==
    CASE name = "getAllIncome" -> incomeData
      [] name = "getAllExpenses" -> expenseData
      [] name = "getAllBudgets" -> budgetData
      [] name = "getTotalIncome" -> getTotalIncome(NoDate, NoDate)
      [] name = "getTotalExpenses" -> getTotalExpenses(NoDate, NoDate)
      [] name = "getIncomeByCategory" -> getIncomeByCategory(NoDate, NoDate)
      [] name = "getExpensesByCategory" ->
            getExpensesByCategory(NoDate, NoDate)
      [] name = "getBudgetStatus" -> getBudgetStatus
      [] name = "getBudgetInsights" -> getBudgetInsights
      [] name = "getBudgetTips" -> getBudgetTips
      [] name = "exportData" -> exportData

\* what `last` records of a query: none of them calls a save function or
\* triggerDataChanged, so the log of writes and listener calls is empty
QueryCall(name, ret) ==
    [op |-> "query", kind |-> "", name |-> name, ret |-> ret, log |-> <<>>]

query ==
    /\ Tick
    /\ \E name \in QueryOps : last' = QueryCall(name, QueryResult(name))
    /\ UNCHANGED <<incomeData, expenseData, budgetData, eventListeners,
                   localStorage, faults>>


Init ==
    /\ incomeData = <<>>
    /\ expenseData = <<>>
    /\ budgetData = <<>>
    /\ eventListeners = <<>>
    /\ localStorage = [k \in KeyNames |-> NoItem]
    /\ faults = 0
    /\ calls = 0
    /\ last = Call("none", "", "", <<>>, "", "undefined", 0, <<>>)
    /\ reader = NoReader

Next ==
    \/ onDataChanged
    \/ addIncome
    \/ updateIncome
    \/ deleteIncome
    \/ addExpense
    \/ updateExpense
    \/ deleteExpense
    \/ addBudget
    \/ updateBudget
    \/ deleteBudget
    \/ importData
    \/ init

Spec == Init /\ [][Next]_vars

\* the persistence store on its own: the calls of Storage and StorageUtil
NextStore ==
    \/ CallSave
    \/ CallLoad
    \/ CallRemove
    \/ CallExists
    \/ CallClearAll
    \/ CallExportData
    \/ CallImportData
    \/ CallSaveSettings
    \/ CallGetSettings
    \/ ForeignWrite

SpecStore == Init /\ [][NextStore]_vars

\* CashBot on its own, with the settings it reads
NextBot ==
    \/ CallSaveSettings
    \/ CallAnalyzeFinancialHealth
    \/ CallGetOverBudgetCategories
    \/ CallOptimizeBudget

SpecBot == Init /\ [][NextBot]_vars

\* the calls that change one kind of record, with the listeners and the
\* calls that only read
NextKinds ==
    \/ onDataChanged
    \/ addIncome
    \/ updateIncome
    \/ deleteIncome
    \/ addExpense
    \/ updateExpense
    \/ deleteExpense
    \/ addBudget
    \/ updateBudget
    \/ deleteBudget
    \/ query

SpecKinds == Init /\ [][NextKinds]_vars

\* the calls that change one kind of record, with the listeners and the
\* reload from storage
NextReload ==
    \/ onDataChanged
    \/ addIncome
    \/ updateIncome
    \/ deleteIncome
    \/ addExpense
    \/ updateExpense
    \/ deleteExpense
    \/ addBudget
    \/ updateBudget
    \/ deleteBudget
    \/ init

SpecReload == Init /\ [][NextReload]_vars

\* the budgets and the expenses their status is computed from
NextStatus ==
    \/ addPeriodBudget
    \/ addDatedExpense

SpecStatus == Init /\ [][NextStatus]_vars

\* getCurrentPeriodDates on its own, on the days of NowDays
NextPeriods ==
    \/ CallGetCurrentPeriodDates

SpecPeriods == Init /\ [][NextPeriods]_vars

\* a file import and the calls that change one kind of record, in any
\* order
NextFile ==
    \/ addIncome
    \/ updateIncome
    \/ deleteIncome
    \/ addExpense
    \/ updateExpense
    \/ deleteExpense
    \/ addBudget
    \/ updateBudget
    \/ deleteBudget
    \/ importDataFromFile
    \/ reader_onload
    \/ reader_onerror

SpecFile == Init /\ [][NextFile]_vars

\* the calls that fill and change the income and expense collections, for
\* the queries over them
NextQueries ==
    \/ addIncome
    \/ updateIncome
    \/ addExpense
    \/ importData

SpecQueries == Init /\ [][NextQueries]_vars

\* the calls that hand out the lists, with the calls that add to them and
\* the listeners that hear of it
NextLists ==
    \/ onDataChanged
    \/ addIncome
    \/ addExpense
    \/ addBudget
    \/ importData
    \/ getAllIncome
    \/ getAllExpenses
    \/ getAllBudgets

SpecLists == Init /\ [][NextLists]_vars

\* ==================================================== claims: vocabulary
Kinds == {"income", "expense", "budget"}
Mutators == {"add", "update", "delete", "import"}

Coll(kind) ==
    CASE kind = "income" -> incomeData
      [] kind = "expense" -> expenseData
      [] kind = "budget" -> budgetData

FieldsOfKind(kind) ==
    CASE kind = "income" -> IncomeFields
      [] kind = "expense" -> ExpenseFields
      [] kind = "budget" -> BudgetFields

KeyOfKind(kind) ==
    CASE kind = "income" -> "cashboard_income"
      [] kind = "expense" -> "cashboard_expenses"
      [] kind = "budget" -> "cashboard_budgets"

\* the array stored under the key of a kind, as loadIncome() and its
\* siblings read it (an absent key reads as the empty array)
StoredArray(kind) ==
    IF localStorage[KeyOfKind(kind)].exists
    THEN localStorage[KeyOfKind(kind)].text[2] ELSE <<>>

\* the collections a call is about
KindsOfCall(c) == IF c.op = "import" THEN Kinds ELSE {c.kind}

WritesOf(log) == {i \in 1..Len(log) : log[i].t = "write"}
CallsOf(log) == {i \in 1..Len(log) : log[i].t = "call"}
SomeWriteRefused(log) == \E i \in WritesOf(log) : ~log[i].ok
SomeListenerThrew(log) == \E i \in CallsOf(log) : ~log[i].ok
NoListenerThrows == \A i \in 1..Len(eventListeners) : eventListeners[i] = "returns"

\* the call reached its save step (an add always does; an update or a
\* delete does when it found the id)
Committed(c) == c.log # <<>>

\* the first position of id in a collection, 0 if it has none
FirstIndex(coll, id) ==
    IF \A i \in 1..Len(coll) : coll[i].id # id THEN 0
    ELSE CHOOSE i \in 1..Len(coll) :
            coll[i].id = id /\ \A j \in 1..Len(coll) : coll[j].id = id => i <= j

\* --------------------------------------------------------------------- C1
\* C1: write-through persistence.  Whenever an add, update, delete or
\* importData call has returned, the array stored under the key of each
\* kind the call is about equals the in-memory collection of that kind
\* (record by record, in order), whatever the store did with the write.
C1_WriteThrough ==
    (last.op \in Mutators /\ last.ret # "threw") =>
        \A k \in KindsOfCall(last) : StoredArray(k) = Coll(k)

\* --------------------------------------------------------------------- C2
\* C2: change notification.  For a committed add, update or delete whose
\* write the store accepted, every registered listener is called exactly
\* once, with the kind of the collection, after the write; when the write
\* was refused no listener is called.
C2_Notification ==
    (last.op \in {"add", "update", "delete"} /\ Committed(last)) =>
        IF SomeWriteRefused(last.log)
        THEN CallsOf(last.log) = {}
        ELSE \A n \in 1..Len(eventListeners) :
                /\ Cardinality({i \in CallsOf(last.log) :
                                    last.log[i].n = n}) = 1
                /\ \A i \in CallsOf(last.log) :
                        /\ last.log[i].k = last.kind
                        /\ \E w \in WritesOf(last.log) :
                                w < i /\ last.log[w].k = last.kind

\* --------------------------------------------------------------------- C3
\* C3: export/import round trip.  importData(exportData()), in a call
\* during which no listener raises, returns true and leaves each of the
\* three collections with the same records in the same order, each with
\* the same id and the same value in every field.
C3_RoundTrip ==
    [][(last'.op = "import" /\ last'.payload = "export"
            /\ ~SomeListenerThrew(last'.log)) =>
        /\ last'.ret = "true"
        /\ incomeData' = incomeData
        /\ expenseData' = expenseData
        /\ budgetData' = budgetData]_vars

\* --------------------------------------------------------------------- C4
\* C4: importData of a payload that lacks one of the top-level fields
\* income, expenses, budgets returns false, changes none of the three
\* collections and none of the storage entries, and calls no listener.
C4_IncompleteRejected ==
    [][(last'.op = "import"
            /\ last'.payload \in {"noIncome", "noExpenses", "noBudgets"}) =>
        /\ last'.ret = "false"
        /\ incomeData' = incomeData
        /\ expenseData' = expenseData
        /\ budgetData' = budgetData
        /\ localStorage' = localStorage
        /\ last'.log = <<>>]_vars

\* an incomplete payload was rejected while the collections held records
\* and a listener was registered
C4_Witness ==
    /\ last.op = "import"
    /\ last.payload = "noBudgets"
    /\ last.ret = "false"
    /\ Len(incomeData) + Len(expenseData) + Len(budgetData) > 0
    /\ Len(eventListeners) > 0

\* --------------------------------------------------------------------- C5
\* C5: a failed call leaves memory intact.  Whenever an add, update, delete
\* or importData call fails (it returns null or false, an exception leaves
\* it, or the store refuses a write or a listener raises during it), the
\* three collections are what they were before the call.
CallFailed(c) ==
    \/ c.ret \in {"null", "false", "threw"}
    \/ SomeWriteRefused(c.log)
    \/ SomeListenerThrew(c.log)

C5_FailureLeavesMemory ==
    [][(last'.op \in Mutators /\ CallFailed(last')) =>
        /\ incomeData' = incomeData
        /\ expenseData' = expenseData
        /\ budgetData' = budgetData]_vars

\* ------------------------------------------- vocabulary for the next state
CollNext(kind) ==
    CASE kind = "income" -> incomeData'
      [] kind = "expense" -> expenseData'
      [] kind = "budget" -> budgetData'

StoredArrayNext(kind) ==
    IF localStorage'[KeyOfKind(kind)].exists
    THEN localStorage'[KeyOfKind(kind)].text[2] ELSE <<>>

\* the call c wrote the collection of the kind, and the store, unless it
\* refused the write, now holds that collection
PersistedBy(c, kind) ==
    \E w \in WritesOf(c.log) :
        /\ c.log[w].k = kind
        /\ c.log[w].ok => StoredArrayNext(kind) = CollNext(kind)

\* the call c called every registered listener exactly once, with the
\* kind, after it wrote the collection of that kind
NotifiedOnce(c, kind) ==
    /\ \A n \in 1..Len(eventListeners) :
            Cardinality({i \in CallsOf(c.log) : c.log[i].n = n}) = 1
    /\ \A i \in CallsOf(c.log) :
            /\ c.log[i].k = kind
            /\ \E w \in WritesOf(c.log) : w < i /\ c.log[w].k = kind

\* --------------------------------------------------------------------- C6
\* a record that has every field of its kind and a value in each field
\* that must have one
WellFormed(kind, r) ==
    /\ DOMAIN r = FieldsOfKind(kind)
    /\ r.id # ""
    /\ kind \in {"income", "expense"} =>
            r.category # "" /\ r.date # "" /\ r.recurrenceInterval # ""
    /\ kind = "expense" => r.paymentMethod # ""
    /\ kind = "budget" => r.period # "" /\ r.startDate # ""

\* the log of a complete import: for income, expense, budget in this
\* order, the write of the kind and then one call of each listener
ImportLog ==
    LET part(kind) ==
            <<[t |-> "write", k |-> kind, n |-> 0, ok |-> TRUE]>> \o
            [n \in 1..Len(eventListeners) |->
                [t |-> "call", k |-> kind, n |-> n, ok |-> TRUE]]
    IN  part("income") \o part("expense") \o part("budget")

\* C6: successful import.  For the payload `foreign`, whose three fields
\* are arrays of well-formed records, in a call during which the store
\* accepts the writes and no listener raises: importData returns true, each
\* collection holds exactly the records of its payload array in payload
\* order, each storage entry holds that array, and the call's effects are,
\* in order, the income write and one call of each listener with 'income',
\* then the same for 'expense', then for 'budget'.
C6_SuccessfulImport ==
    [][(/\ last'.op = "import"
        /\ last'.payload = "foreign"
        /\ \A r \in 1..Len(ForeignIncome) :
                WellFormed("income", ForeignIncome[r])
        /\ \A r \in 1..Len(ForeignExpenses) :
                WellFormed("expense", ForeignExpenses[r])
        /\ \A r \in 1..Len(ForeignBudgets) :
                WellFormed("budget", ForeignBudgets[r])
        /\ NoListenerThrows
        /\ ~SomeWriteRefused(last'.log)) =>
        /\ last'.ret = "true"
        /\ incomeData' = ForeignIncome
        /\ expenseData' = ForeignExpenses
        /\ budgetData' = ForeignBudgets
        /\ StoredArrayNext("income") = ForeignIncome
        /\ StoredArrayNext("expense") = ForeignExpenses
        /\ StoredArrayNext("budget") = ForeignBudgets
        /\ last'.log = ImportLog]_vars

\* a complete import returned true with a listener registered
C6_Witness ==
    /\ last.op = "import"
    /\ last.payload = "foreign"
    /\ last.ret = "true"
    /\ Len(eventListeners) > 0
    /\ incomeData = ForeignIncome
    /\ calls = 3

\* --------------------------------------------------------------------- C7
\* C7: budget status classification.  For every budget of the collection,
\* getBudgetStatus reports 'danger' when percentSpent is at or above the
\* budget's danger threshold, otherwise 'warning' when it is at or above
\* the warning threshold, otherwise 'good'.
C7_StatusClassification ==
    \A i \in 1..Len(budgetData) :
        LET b == budgetData[i]
            st == getBudgetStatus[i]
            pct == st.percentSpent
        IN  st.status =
                IF pct.num >= b.alerts.danger * pct.den THEN "danger"
                ELSE IF pct.num >= b.alerts.warning * pct.den THEN "warning"
                ELSE "good"

\* --------------------------------------------------------------------- C8
\* C8: lookup miss is a no-op.  A delete with an id that no record of the
\* collection has returns false and an update with such an id returns
\* null; the three collections and the storage entries are unchanged and
\* no listener is called.
C8_LookupMiss ==
    [][(/\ last'.op \in {"update", "delete"}
        /\ FirstIndex(Coll(last'.kind), last'.id) = 0) =>
        /\ last'.ret = IF last'.op = "delete" THEN "false" ELSE "null"
        /\ incomeData' = incomeData
        /\ expenseData' = expenseData
        /\ budgetData' = budgetData
        /\ localStorage' = localStorage
        /\ last'.log = <<>>]_vars

\* a delete missed in a collection that holds records, with a listener
\* registered
C8_Witness ==
    /\ last.op = "delete"
    /\ last.ret = "false"
    /\ last.id = "zz"
    /\ Len(Coll(last.kind)) > 0
    /\ Len(eventListeners) > 0

\* --------------------------------------------------------------------- C9
\* C9: partial update.  update(id, data) on an existing record sets
\* exactly the fields data provides, leaves the other fields, the id, the
\* position and all other records unchanged and writes the collection;
\* the store, when it accepts the write, then holds the collection, and
\* when no listener raises the call returns the updated record and has
\* called every listener exactly once with the kind.
C9_PartialUpdate ==
    [][(/\ last'.op = "update"
        /\ FirstIndex(Coll(last'.kind), last'.id) # 0) =>
        LET k == last'.kind
            old == Coll(k)
            new == CollNext(k)
            idx == FirstIndex(old, last'.id)
            data == last'.data
        IN  /\ Len(new) = Len(old)
            /\ \A j \in 1..Len(old) : j # idx => new[j] = old[j]
            /\ DOMAIN new[idx] = FieldsOfKind(k)
            /\ new[idx].id = old[idx].id
            /\ \A f \in FieldsOfKind(k) \ {"id"} :
                    new[idx][f] =
                        IF f \in DOMAIN data THEN data[f] ELSE old[idx][f]
            /\ \A o \in Kinds \ {k} : CollNext(o) = Coll(o)
            /\ PersistedBy(last', k)
            /\ NoListenerThrows =>
                    /\ last'.ret = "record"
                    /\ last'.retIdx = idx
                    /\ NotifiedOnce(last', k)]_vars

\* an update found its record, with a listener registered
C9_Witness ==
    /\ last.op = "update"
    /\ last.ret = "record"
    /\ last.id # "zz"
    /\ Len(eventListeners) > 0
    /\ ~SomeWriteRefused(last.log)

\* -------------------------------------------------------------------- C10
\* C10: delete of an existing id removes exactly the first record, in
\* collection order, whose id matches: the length decreases by one and the
\* other records keep their order and contents; the collection is
\* written, the store, when it accepts the write, then holds it, and when
\* no listener raises the call returns true and has called every listener
\* exactly once with the kind.
C10_DeleteExisting ==
    [][(/\ last'.op = "delete"
        /\ FirstIndex(Coll(last'.kind), last'.id) # 0) =>
        LET k == last'.kind
            old == Coll(k)
            new == CollNext(k)
            idx == FirstIndex(old, last'.id)
        IN  /\ Len(new) = Len(old) - 1
            /\ \A j \in 1..Len(new) :
                    new[j] = IF j < idx THEN old[j] ELSE old[j + 1]
            /\ \A o \in Kinds \ {k} : CollNext(o) = Coll(o)
            /\ PersistedBy(last', k)
            /\ NoListenerThrows =>
                    /\ last'.ret = "true"
                    /\ NotifiedOnce(last', k)]_vars

\* a delete removed a record and left another one behind
C10_Witness ==
    /\ last.op = "delete"
    /\ last.ret = "true"
    /\ Len(Coll(last.kind)) > 0
    /\ ~SomeWriteRefused(last.log)
\* -------------------------------------------------------------------- C11
\* the value a field has in a record made from data that omits it
DefaultsOf(kind) ==
    CASE kind = "income" ->
            [title |-> "", amount |-> 0, category |-> "Salary",
             date |-> "2025-03-14", recurring |-> FALSE,
             recurrenceInterval |-> "monthly", notes |-> "", source |-> "",
             tags |-> <<>>]
      [] kind = "expense" ->
            [title |-> "", amount |-> 0, category |-> "Miscellaneous",
             date |-> "2025-03-14", recurring |-> FALSE,
             recurrenceInterval |-> "monthly", paymentMethod |-> "Cash",
             notes |-> "", tags |-> <<>>, receipt |-> Null,
             location |-> Null]
      [] kind = "budget" ->
            [category |-> "", amount |-> 0, period |-> "monthly",
             startDate |-> "2025-03-14", notes |-> "", rollover |-> FALSE,
             alerts |-> [warning |-> 80, danger |-> 100]]

\* C11: add appends.  add(data) of any kind puts one new record at the end
\* of the collection: the length grows by one, the earlier records keep
\* their order and contents, the other collections are untouched; the new
\* record has every field of its kind, a field data provides holds the
\* provided value, a field data omits holds its default (a generated id
\* for the id); the collection is written, the store, when it accepts the
\* write, then holds it, and when no listener raises the call returns the
\* new record and has called every listener exactly once with the kind.
C11_AddAppends ==
    [][(last'.op = "add") =>
        LET k == last'.kind
            old == Coll(k)
            new == CollNext(k)
            data == last'.data
            rec == new[Len(new)]
        IN  /\ Len(new) = Len(old) + 1
            /\ \A j \in 1..Len(old) : new[j] = old[j]
            /\ DOMAIN rec = FieldsOfKind(k)
            /\ \A f \in FieldsOfKind(k) \ {"id"} :
                    rec[f] = IF f \in DOMAIN data THEN data[f]
                             ELSE DefaultsOf(k)[f]
            /\ rec.id = IF "id" \in DOMAIN data THEN data.id ELSE rec.id
            /\ "id" \notin DOMAIN data => rec.id \in GenIds
            /\ \A o \in Kinds \ {k} : CollNext(o) = Coll(o)
            /\ PersistedBy(last', k)
            /\ NoListenerThrows =>
                    /\ last'.ret = "record"
                    /\ last'.retIdx = Len(new)
                    /\ NotifiedOnce(last', k)]_vars

\* add({}) appended an all-defaults budget behind an earlier one, with a
\* listener registered
C11_Witness ==
    /\ last.op = "add"
    /\ last.kind = "budget"
    /\ last.data = <<>>
    /\ last.ret = "record"
    /\ Len(budgetData) = 2
    /\ Len(eventListeners) > 0
    /\ ~SomeWriteRefused(last.log)
\* -------------------------------------------------------------------- C12
\* C12: list isolation.  Whatever the caller of getAllIncome,
\* getAllExpenses or getAllBudgets does with the returned value (reverse
\* it, remove an element, assign to a field of one of its records), the
\* three collections, and with them what exportData returns, are what
\* they were before.
C12_ListIsolation ==
    [][(last'.op = "getAll") =>
        /\ incomeData' = incomeData
        /\ expenseData' = expenseData
        /\ budgetData' = budgetData
        /\ exportData' = exportData]_vars
\* -------------------------------------------------------------------- C13
\* the date arguments the queries are checked with: none, and the days
\* the records of the model are dated
QueryDays == {51, 62, 73}
DateArgs == {NoDate} \cup {Date(d) : d \in QueryDays}

\* the sum of the amounts of the records at the indexes in S, taken in no
\* particular order
RECURSIVE SumOver(_, _)
SumOver(coll, S) ==
    IF S = {} THEN 0
    ELSE LET i == CHOOSE x \in S : TRUE
         IN  coll[i].amount + SumOver(coll, S \ {i})

\* the indexes of the records whose date d has startDate <= d <= endDate,
\* a bound that is not given being no bound
Selected(coll, startDate, endDate) ==
    {i \in 1..Len(coll) :
        LET d == ParseDate(coll[i].date)
        IN  /\ startDate.given => d.valid /\ startDate.day <= d.day
            /\ endDate.given => d.valid /\ d.day <= endDate.day}

Reordered(coll, p) == [i \in 1..Len(coll) |-> coll[p[i]]]

RECURSIVE SumValues(_)
SumValues(m) ==
    IF DOMAIN m = {} THEN 0
    ELSE LET c == CHOOSE x \in DOMAIN m : TRUE
         IN  m[c] + SumValues([x \in DOMAIN m \ {c} |-> m[x]])

\* what a partition by category of the selected records is: its keys are
\* the categories of the selected records, the value of a key is the sum
\* over the selected records of that category, and its values add up to
\* total
Partitions(m, coll, S, total) ==
    /\ DOMAIN m = {coll[i].category : i \in S}
    /\ \A c \in DOMAIN m :
            m[c] = SumOver(coll, {i \in S : coll[i].category = c})
    /\ SumValues(m) = total

C20_IdUniqueness ==
    \A k \in Kinds :
        \A i \in 1..Len(Coll(k)), j \in 1..Len(Coll(k)) :
            Coll(k)[i].id = Coll(k)[j].id => i = j
\* -------------------------------------------------------------------- C18
\* the operations of the Storage object
StorageOps ==
    {"save", "load", "remove", "exists", "clearAll", "exportData",
     "importData"}

\* C18: failure policy of the persistence store.  No call of save, load,
\* remove, exists, clearAll, exportData or importData ends in an
\* exception; a save, remove or importData during which localStorage
\* raised or refused a write returns false, as does an importData of a
\* text that is not JSON, which also leaves the stored data as it was; a
\* load during which localStorage raised, or of a key that holds a text
\* that is not JSON, returns the supplied default and leaves the stored
\* data as it was.
C18_FailurePolicy ==
    [][(last'.op \in StorageOps) =>
        /\ ~last'.threw
        /\ (last'.op \in {"save", "remove", "importData"} /\ last'.failed)
                => last'.ret = FALSE
        /\ (last'.op = "importData" /\ last'.arg = "corrupt")
                => last'.ret = FALSE /\ localStorage' = localStorage
        /\ (/\ last'.op = "load"
            /\ \/ last'.failed
               \/ /\ localStorage[last'.key].exists
                  /\ localStorage[last'.key].text = CorruptText)
                => last'.ret = last'.arg /\ localStorage' = localStorage]_vars

\* -------------------------------------------------------------------- C19
\* C19: settings are never null and never partial.  In every state of the
\* store, getSettings returns an object that has every field of the
\* default settings, and a field the stored object lacks (every field,
\* when nothing is stored) has its default value.
C19_SettingsComplete ==
    LET entry == localStorage[StorageKeys.SETTINGS]
        s == StorageUtil_getSettings(localStorage)
        stored == IF entry.exists /\ ~ParseThrows(entry.text)
                        /\ ~IsNull(JSON_parse(entry.text))
                  THEN JSON_parse(entry.text) ELSE <<>>
    IN  /\ ~IsNull(s)
        /\ \A f \in DOMAIN DEFAULT_SETTINGS :
            /\ f \in DOMAIN s
            /\ f \notin DOMAIN stored => s[f] = DEFAULT_SETTINGS[f]
\* -------------------------------------------------------------------- C15
\* C15: decision order of the financial-health analysis.  For a summary
\* with totalIncome <= 0 the result is 'warning', 50 and the one no-income
\* tip, whatever the other fields are; otherwise with totalExpenses <= 0
\* it is 'warning', 60 and the one no-expenses tip; otherwise with
\* totalExpenses > totalIncome it is 'danger', 30 and the two overspending
\* tips; otherwise the status follows from the returned score: 'healthy'
\* from 60 up, 'warning' from 40 to 59, 'danger' below 40.
C15_DecisionOrder ==
    (last.op = "analyzeFinancialHealth") =>
        LET summary == last.args.summary
            r == last.ret
        IN  IF summary.totalIncome <= 0
            THEN r = [status |-> "warning", score |-> 50,
                      recommendations |-> <<[tips |-> "noIncome", n |-> 0]>>]
            ELSE IF summary.totalExpenses <= 0
            THEN r = [status |-> "warning", score |-> 60,
                      recommendations |-> <<[tips |-> "noExpenses", n |-> 0]>>]
            ELSE IF summary.totalExpenses > summary.totalIncome
            THEN r = [status |-> "danger", score |-> 30,
                      recommendations |->
                        <<[tips |-> "highExpenses", n |-> 0],
                          [tips |-> "highExpenses", n |-> 1]>>]
            ELSE r.status = IF r.score >= 60 THEN "healthy"
                            ELSE IF r.score >= 40 THEN "warning"
                            ELSE "danger"

\* a summary without income whose expenses exceed the income and whose
\* savings rate alone would score 80: the first case decided
C15_Witness ==
    /\ last.op = "analyzeFinancialHealth"
    /\ last.args.summary.totalIncome = 0
    /\ last.args.summary.totalExpenses = 150
    /\ last.args.summary.savingsRate = 40
    /\ last.ret.score = 50

\* -------------------------------------------------------------------- C16
\* the categories that are over budget: spend at or above a budget that is
\* set and not 0
OverBudgetSet(entries, budgets) ==
    {entries[i].category : i \in
        {j \in 1..Len(entries) :
            /\ entries[j].category \in DOMAIN budgets
            /\ budgets[entries[j].category] # 0
            /\ entries[j].spent * 100
                    >= 100 * budgets[entries[j].category]}}

\* C16: over-budget list.  getOverBudgetCategories returns one element
\* for each category of the summary whose budget is set and not 0 and
\* whose percentSpent = spent / budget * 100 is at least 100, and no
\* other; a category whose budget is 0 or not set is not in the list;
\* the elements are in non-increasing order of percentSpent.
C16_OverBudgetList ==
    (last.op = "getOverBudgetCategories") =>
        LET entries == last.args.summary.expensesByCategory
            budgets == last.args.budgets
            r == last.ret
        IN  /\ {r[i].category : i \in 1..Len(r)}
                    = OverBudgetSet(entries, budgets)
            /\ Len(r) = Cardinality(OverBudgetSet(entries, budgets))
            /\ \A i \in 1..Len(r) :
                /\ r[i].budget = budgets[r[i].category]
                /\ r[i].percentSpent.num * r[i].budget
                        = r[i].spent * 100 * r[i].percentSpent.den
            /\ \A i \in 1..Len(r), j \in 1..Len(r) :
                i < j => r[i].percentSpent.num * r[j].percentSpent.den
                            >= r[j].percentSpent.num * r[i].percentSpent.den

\* two categories are over budget by different percentages, the one
\* visited later by more, and the third has spend and a budget of 0
C16_Witness ==
    /\ last.op = "getOverBudgetCategories"
    /\ Len(last.ret) = 2
    /\ last.ret[1].category = "Rent"
    /\ last.ret[1].percentSpent = [nan |-> FALSE, num |-> 12000, den |-> 60]
    /\ last.ret[2].category = "Food"
    /\ last.ret[2].percentSpent = [nan |-> FALSE, num |-> 12000, den |-> 120]
    /\ last.args.summary.expensesByCategory[1].category = "Food"
    /\ "Fun" \in DOMAIN last.args.budgets
    /\ last.args.budgets["Fun"] = 0

\* C17: optimizeBudget returns null when total income or total expenses is
\* zero; for income > 0 and expenses > 0 it returns recommendedSavings =
\* income * savingsTarget / 100, where savingsTarget is the savings target of
\* the settings, 20 when none was ever set (the rate calculateAllocations
\* uses), and for every category optimizedBudget[c] =
\* round(spend_c * f * 1.1), with f = (income - recommendedSavings) / expenses
\* when expenses exceed income - recommendedSavings and f = 1 otherwise
C17_BudgetOptimisation ==
    last.op = "optimizeBudget" =>
        LET s == last.args.summary
            r == last.ret
            entries == s.expensesByCategory
            rate == getAllocationSettings(localStorage).savings
            \* a hundred times recommendedSavings and a hundred times
            \* income - recommendedSavings
            savings100 == s.totalIncome * rate
            target100 == 100 * s.totalIncome - savings100
            exceeds == 100 * s.totalExpenses > target100
            fnum == IF exceeds THEN target100 ELSE 1
            fden == IF exceeds THEN 100 * s.totalExpenses ELSE 1
        IN  IF s.totalIncome = 0 \/ s.totalExpenses = 0 THEN IsNull(r)
            ELSE /\ ~IsNull(r)
                 /\ ~r.recommendedSavings.nan
                 /\ r.recommendedSavings.num * 100
                        = savings100 * r.recommendedSavings.den
                 /\ DOMAIN r.optimizedBudget
                        = {entries[i].category : i \in 1..Len(entries)}
                 /\ \A i \in 1..Len(entries) :
                        r.optimizedBudget[entries[i].category]
                            = Math_round(entries[i].spent * fnum * 11,
                                         fden * 10)

\* -------------------------------------------------------------------- C21
\* C21: weekly period window.  For every value of now, the window
\* getCurrentPeriodDates('weekly') returns starts on the Monday of now's
\* week and ends on the Sunday six days later, so it contains now and
\* covers exactly seven consecutive days, also when the week straddles a
\* month or year boundary.
C21_WeeklyWindow ==
    (last.op = "getCurrentPeriodDates" /\ last.periodType = "weekly") =>
        /\ getDay(last.ret.startDate) = 1
        /\ last.ret.startDate <= last.now
        /\ last.now <= last.ret.startDate + 6
        /\ last.ret.endDate = last.ret.startDate + 6
        /\ getDay(last.ret.endDate) = 0
\* -------------------------------------------------------------------- C22
\* the indexes of the expenses of the budget's category whose date is a
\* day of the window, its first and last day included
InWindow(budget, window) ==
    {j \in 1..Len(expenseData) :
        LET d == ParseDate(expenseData[j].date)
        IN  /\ expenseData[j].category = budget.category
            /\ d.valid
            /\ window.startDate <= d.day
            /\ d.day <= window.endDate}

C23_ZeroAmount ==
    \A i \in 1..Len(budgetData) :
        LET b == budgetData[i]
            st == getBudgetStatus[i]
            pct == st.percentSpent
        IN  /\ pct.den > 0
            /\ b.amount = 0 => pct.num = 100 * pct.den
            /\ b.amount > 0 => pct.num * b.amount = st.spent * 100 * pct.den

\* a budget with no amount in whose window something was spent
C23_Witness ==
    /\ Len(budgetData) = 1
    /\ budgetData[1].amount = 0
    /\ budgetData[1].period = "daily"
    /\ getBudgetStatus[1].spent = 4
    /\ getBudgetStatus[1].percentSpent.num = 100
    /\ getBudgetStatus[1].percentSpent.den = 1
\* -------------------------------------------------------------------- C24
\* C24: health score range.  For every summary passed to
\* analyzeFinancialHealth (any totalIncome, totalExpenses and savingsRate,
\* the savingsRate being taken as given) the returned score is an integer
\* between 0 and 100 inclusive.
C24_ScoreRange ==
    last.op = "analyzeFinancialHealth" =>
        /\ last.ret.score \in Int
        /\ 0 <= last.ret.score
        /\ last.ret.score <= 100
\* -------------------------------------------------------------------- C25
\* C25: threshold invariant.  In every state reachable by addBudget,
\* updateBudget, importData and a reload from storage, every budget of the
\* collection has a warning threshold strictly smaller than its danger
\* threshold (80 and 100 when the caller supplies none).
C25_Thresholds ==
    \A i \in 1..Len(budgetData) :
        /\ budgetData[i].alerts.warning < budgetData[i].alerts.danger
        /\ (last.op = "add" /\ last.kind = "budget" /\ i = Len(budgetData)
                /\ "alerts" \notin DOMAIN last.data)
            => budgetData[i].alerts = [warning |-> 80, danger |-> 100]
\* -------------------------------------------------------------------- C30
\* the status is an item of the group with that title
Listed(insights, title, status) ==
    \E g \in 1..Len(insights) :
        /\ insights[g].title = title
        /\ \E k \in 1..Len(insights[g].items) :
                insights[g].items[k] = InsightItem(status)

\* C30: insight coverage.  For every state of the budget and expense
\* collections, every budget is listed in at least one group returned by
\* getBudgetInsights ('Budget Overspending' when spent > amount,
\* 'Approaching Budget Limit' when percentSpent is between its warning and
\* danger thresholds, 'Healthy Budget Categories' when percentSpent is
\* below its warning threshold), and a group is returned only when it has
\* at least one item.
C30_InsightCoverage ==
    LET insights == getBudgetInsights
    IN  /\ \A g \in 1..Len(insights) : Len(insights[g].items) > 0
        /\ \A i \in 1..Len(budgetData) :
            LET b == budgetData[i]
                st == getBudgetStatus[i]
                pct == st.percentSpent
            IN  /\ st.spent > b.amount
                    => Listed(insights, "Budget Overspending", st)
                /\ (/\ pct.num >= b.alerts.warning * pct.den
                    /\ pct.num < b.alerts.danger * pct.den)
                    => Listed(insights, "Approaching Budget Limit", st)
                /\ pct.num < b.alerts.warning * pct.den
                    => Listed(insights, "Healthy Budget Categories", st)
                /\ \E g \in 1..Len(insights) :
                        Listed(insights, insights[g].title, st)
\* -------------------------------------------------------------------- C26
\* C26: kind isolation.  An add, update or delete on one record kind
\* leaves the in-memory collections of the other two kinds and their
\* storage entries unchanged and notifies listeners only with the kind that
\* was mutated; a query changes no collection, writes nothing to storage
\* and notifies no listener.
C26_KindIsolation ==
    [][/\ last'.op \in {"add", "update", "delete"} =>
            /\ \A k \in Kinds \ {last'.kind} :
                    /\ CollNext(k) = Coll(k)
                    /\ localStorage'[KeyOfKind(k)] = localStorage[KeyOfKind(k)]
            /\ \A i \in 1..Len(last'.log) : last'.log[i].k = last'.kind
       /\ last'.op = "query" =>
            /\ \A k \in Kinds : CollNext(k) = Coll(k)
            /\ localStorage' = localStorage
            /\ last'.log = <<>>
            /\ faults' = faults]_vars

\* an expense is added while an income is in memory and in storage, and
\* the listener registered is called
C26_Witness ==
    /\ last.op = "add"
    /\ last.kind = "expense"
    /\ last.ret = "record"
    /\ Cardinality(CallsOf(last.log)) = 1
    /\ Len(incomeData) = 1
    /\ localStorage["cashboard_income"].exists
\* -------------------------------------------------------------------- C27
\* C27: reload fidelity.  After any sequence of add, update and delete
\* calls whose storage writes all succeeded, calling init() again yields
\* collections with the same records in the same order, each with the same
\* id and the same value in every field as before the reload (also for
\* records whose fields were updated to empty or zero values), and calls
\* no change listener.
C27_ReloadFidelity ==
    [][(last'.op = "init" /\ faults = 0) =>
            /\ \A k \in Kinds : CollNext(k) = Coll(k)
            /\ last'.log = <<>>]_vars
\* -------------------------------------------------------------------- C28
\* the defaults load is called with: an empty array and null
RoundTripDefaults == { <<>>, NullItem }

\* C28: whole-store round trip.  For every state of the store (each of the
\* five known keys either absent or holding a value),
\* Storage.importData(Storage.exportData()) returns true and leaves
\* exists(key) and load(key, default) unchanged for each of the five keys
\* and every default; in particular a key that was absent is still absent,
\* so a later DataService.init() still loads an empty collection for it.
C28_StoreRoundTrip ==
    [][(last'.op = "importData" /\ last'.arg = "export" /\ ~last'.failed) =>
            /\ last'.ret = TRUE
            /\ \A key \in KeyNames :
                /\ Storage_exists(localStorage', key)
                        = Storage_exists(localStorage, key)
                /\ \A defaultValue \in RoundTripDefaults :
                        Storage_load(localStorage', key, defaultValue)
                            = Storage_load(localStorage, key, defaultValue)]_vars
\* -------------------------------------------------------------------- C29
\* the storage type a kind of record is exported under
TypeOfKind(kind) ==
    CASE kind = "income" -> "INCOME"
      [] kind = "expense" -> "EXPENSES"
      [] kind = "budget" -> "BUDGETS"

\* the kinds a file text holds records of, and those records
KindsIn(text) == {k \in Kinds : TypeOfKind(k) \in DOMAIN JSON_parse(text)}
ImportedOf(text, kind) == JSON_parse(text)[TypeOfKind(kind)]

\* the records the Data Service serves of a kind in the next state, as
\* their JSON
ServedNext(kind) ==
    [i \in 1..Len(CollNext(kind)) |->
        [f \in FieldsOfKind(kind) |-> CollNext(kind)[i][f]]]

\* a file import has just completed successfully, every write accepted
FileImported ==
    last.op = "onload" /\ last.promise = "resolved" /\ ~last.failed

\* C29: a file import is not lost.  When importDataFromFile completes
\* successfully, whatever Data Service calls were made before the read
\* finished, the Data Service serves the imported records afterwards, and
\* the add, update or delete that follows persists a collection of its
\* kind that still contains the imported records of that kind (but for the
\* record the call itself changes or removes).
C29_FileImportKept ==
    [][/\ FileImported' =>
            \A k \in KindsIn(last'.text) :
                ServedNext(k) = ImportedOf(last'.text, k)
       /\ (FileImported /\ last'.op \in {"add", "update", "delete"}
                /\ last'.kind \in KindsIn(last.text)) =>
            \E imported \in {ImportedOf(last.text, last'.kind)} :
            \E stored \in {StoredArrayNext(last'.kind)} :
                \A i \in 1..Len(imported) :
                    imported[i].id # last'.id =>
                        \E j \in 1..Len(stored) : stored[j] = imported[i]]_vars
====
